---- MODULE Spec2Model ----
(***************************************************************************)
(* Salesforce MCP server: the debug-log orchestrator (manage_debug_logs),  *)
(* the cached session (get_connection) and the tool/adapter boundaries,    *)
(* run against a model of the remote org (User, DebugLevel, TraceFlag and  *)
(* ApexLog records).  Every remote HTTP call of manage_debug_logs is one   *)
(* step; a step may fail (raise_for_status raises).  Tool calls run one    *)
(* after the other; time passes between them, and the clock of the host is *)
(* read as not moving while one call runs.                                 *)
(***************************************************************************)
EXTENDS Integers, Sequences, FiniteSets, TLC

(* ------------------------------ bounds --------------------------------- *)
\* minutes the clock may advance in all
MaxTicks == 1
\* number of tool calls that may be started
MaxInvocations == 2
\* number of get_connection calls in a sequence of them
MaxCalls == 4
\* the largest limit argument a query is called with
MaxLimit == 2002

(* --------------------------- program constants ------------------------- *)
UserQueryLimit == 5
DefaultExpirationMinutes == 30
ExtendSeconds == 30
NearFutureMinutes == 5
DefaultLimit == 10
ToolMaxLimit == 100
RecordMaxLimit == 2000
RecordDefaultLimit == 10
DescriptionMax == 100          \* get_validation_rules: longest description shown whole
DescriptionKept == 97          \* characters kept of a longer one

(* Python None for Optional[str] and Optional[int] arguments *)
NoneStr == "None"
NoneInt == -1

(* ------------------------------ strings -------------------------------- *)
\* a string is a sequence of characters; t in s
Contains(s, t) ==
    \E i \in 1..(Len(s) - Len(t) + 1) : SubSeq(s, i, i + Len(t) - 1) = t

HasChar(s, c) == \E i \in 1..Len(s) : s[i] = c

Take(s, n) == SubSeq(s, 1, IF Len(s) < n THEN Len(s) ELSE n)

\* all orderings of a finite set, as sequences without repetition
Orderings(S) ==
    {s \in [1..Cardinality(S) -> S] : \A i, j \in 1..Cardinality(S) : s[i] = s[j] => i = j}

(* ---------------------------- the remote org --------------------------- *)
\* User records, most recently modified first
Users ==
    << [Id |-> "U1", Username |-> <<"a", "@">>, Name |-> <<"a", " ", "b">>, IsActive |-> TRUE],
       [Id |-> "U2", Username |-> <<"c", "@">>, Name |-> <<"a", " ", "c">>, IsActive |-> TRUE],
       [Id |-> "U3", Username |-> <<"e", "@">>, Name |-> <<"d", " ", "e">>, IsActive |-> FALSE] >>

NoUser == [Id |-> "none", Username |-> <<>>, Name |-> <<>>, IsActive |-> FALSE]

\* ApexLog records (read-only for this system)
ApexLogs == << [Id |-> "L1", LogUserId |-> "U1"] >>

NoLog == [Id |-> "none", LogUserId |-> "none"]

\* the eight categories of a DebugLevel
Categories ==
    {"ApexCode", "ApexProfiling", "Callout", "Database", "System", "Validation",
     "Visualforce", "Workflow"}

(* ------------------------------- inputs -------------------------------- *)
Operations == {"enable", "disable", "retrieve", "purge"}
Usernames ==
    { <<>>, <<"a", "@">>, <<"e", "@">>, <<"a", " ">>, <<"a">>, <<"z">>, <<"b">> }
LogLevels == {NoneStr, "DEBUG", "FINE"}
ExpirationTimes == {NoneInt, 1}
LogIds == {NoneStr, "L1", "L9"}
DateFormats == {"iso", "other"}
Adapters ==
    {"search_objects", "describe_object", "describe_object_with_api",
     "get_picklist_values", "describe_relationship_fields", "get_fields_by_type",
     "query_records", "get_validation_rules"}

Procs == {1, 2}
SeqProcs == {1}

VARIABLES
    clock,        \* ticks of real time
    conn,         \* attributes cached on get_connection
    nextToken,    \* next access token the authorization endpoint hands out
    debugLevels,  \* remote DebugLevel records, by Id
    traceFlags,   \* remote TraceFlag records, by Id
    nextId,       \* next record Id the remote store hands out
    inv,          \* per invocation of manage_debug_logs: position and locals
    log,          \* per invocation: get_connection and remote calls so far
    result,       \* per invocation: the returned string
    pre,          \* per invocation: remote records when it started
    started,      \* tool invocations started so far
    escaped       \* per invocation: the boundaries an exception crossed

vars ==
    <<clock, conn, nextToken, debugLevels, traceFlags, nextId, inv, log,
      result, pre, started, escaped>>

\* one tick of the clock is a minute; times are in seconds
UtcNow == clock * 60
\* datetime.now(): the host's local time; the host's clock is set to UTC
TzOffset == 0
LocalNow == UtcNow + TzOffset

(* --------------------- calls, errors and returned text ----------------- *)
\* one entry of an invocation's call log: get_connection, or an HTTP call
\* (n: records in the response; sent, body: the JSON body's keys and values)
Call(m, o, id, ok, n) ==
    [m |-> m, o |-> o, id |-> id, ok |-> ok, n |-> n, sent |-> {},
     body |-> [TracedEntityId |-> "none", DebugLevelId |-> 0, LogType |-> "none",
               StartDate |-> 0, ExpirationDate |-> 0]]

\* the same call with a JSON body
WithBody(c, sent, body) == [c EXCEPT !.sent = sent, !.body = body]

\* str(e) of the exception a failed call raises
ErrorText(c) == <<c.m, c.o, c.id>>

NoError == <<>>

Mutating == {"POST", "PATCH", "DELETE"}

\* the returned string: its fixed text and the values formatted into it
Text(text) ==
    [text |-> text, users |-> <<>>, count |-> 0, err |-> NoError, level |-> NoneStr,
     exp |-> 0, minutes |-> 0, id |-> 0, body |-> FALSE, details |-> NoLog]

NoResult == Text("")

(* --------------------------- get_connection ---------------------------- *)
NoConn == [instance |-> 0, access_token |-> 0, instance_url |-> 0, connection_info |-> 0]

HasInstance(c) == c.instance # 0

\* whether get_connection(cached) performs the credential exchange
NeedsExchange_Never(c, cached) == FALSE
NeedsExchange_WhenEmpty(c, cached) == ~HasInstance(c)
NeedsExchange(c, cached) == ~HasInstance(c) \/ ~cached

\* the attributes stored after a successful exchange that returned token t
Connected(t) == [instance |-> t, access_token |-> t, instance_url |-> t, connection_info |-> t]

(* -------------------------- user resolution ---------------------------- *)
\* "@" in username or " " not in username
IsLikelyUsername(username) == HasChar(username, "@") \/ ~HasChar(username, " ")

\* WHERE Username = '{username}'
ByUsername(username) == SelectSeq(Users, LAMBDA u : u.Username = username)

\* WHERE Name LIKE '%{username}%' ORDER BY LastModifiedDate DESC LIMIT 5
ByName(username) ==
    Take(SelectSeq(Users, LAMBDA u : Contains(u.Name, username)), UserQueryLimit)

\* the primary user query
PrimaryQuery(username) ==
    IF IsLikelyUsername(username) THEN ByUsername(username) ELSE ByName(username)

\* WHERE Name LIKE '%{username}%' OR Username LIKE '%{username}%' ... LIMIT 5
BroadQuery(username) ==
    Take(SelectSeq(Users, LAMBDA u : Contains(u.Name, username) \/ Contains(u.Username, username)),
         UserQueryLimit)

\* not x.get("records") or len(x["records"]) == 0
NoRecords(records) == Len(records) = 0

\* the primary query found nobody: the broader search is tried
NeedsBroadSearch_Always(records) == TRUE
NeedsBroadSearch(records) == NoRecords(records)

\* the broader search found nobody either
NobodyFound(records) == NoRecords(records)

\* disable: the trace-flag query returned nothing
NoActiveFlags_Never(records) == FALSE
NoActiveFlags(records) == NoRecords(records)

\* the listing "- {Name} ({Username})" of the matched users
Listing(records) == [i \in 1..Len(records) |-> <<records[i].Name, records[i].Username>>]

(* ------------------------------ validation ----------------------------- *)
\* the input validation at the top of manage_debug_logs: the error, or "" to go on
ValidationError_UsernameOnly(operation, username, log_level) ==
    IF username = <<>> THEN "Error: Username is required" ELSE ""
ValidationError(operation, username, log_level) ==
    IF username = <<>> THEN "Error: Username is required"
    ELSE IF operation = "enable" /\ log_level = NoneStr
         THEN "Error: Log level is required for 'enable' operation"
         ELSE ""

\* expiration_time or 30
ExpirationOrDefault(e) == IF e = NoneInt \/ e = 0 THEN DefaultExpirationMinutes ELSE e

\* limit or 10
LimitOrDefault(l) == IF l = NoneInt \/ l = 0 THEN DefaultLimit ELSE l

(* ------------------------- remote records ------------------------------ *)
\* the body of the DebugLevel create: every category set to log_level
DebugLevelData(log_level) ==
    [DeveloperName |-> log_level, MasterLabel |-> log_level,
     ApexCode |-> log_level, ApexProfiling |-> log_level, Callout |-> log_level,
     Database |-> log_level, System |-> log_level, Validation |-> log_level,
     Visualforce |-> log_level, Workflow |-> log_level]

\* the body of the TraceFlag create
TraceFlagData_NoLevel(user_id, debug_level_id, start, expiration_date) ==
    [TracedEntityId |-> user_id, DebugLevelId |-> 0, LogType |-> "USER_DEBUG",
     StartDate |-> start, ExpirationDate |-> expiration_date]
TraceFlagData(user_id, debug_level_id, start, expiration_date) ==
    [TracedEntityId |-> user_id, DebugLevelId |-> debug_level_id, LogType |-> "USER_DEBUG",
     StartDate |-> start, ExpirationDate |-> expiration_date]

Empty == [i \in {} |-> 0]

Without(f, id) == [i \in DOMAIN f \ {id} |-> f[i]]

\* WHERE TracedEntityId = '{user Id}' AND ExpirationDate > {now}
Unexpired(flags, user_id, now) ==
    {id \in DOMAIN flags : flags[id].TracedEntityId = user_id /\ flags[id].ExpirationDate > now}

\* SELECT Id FROM DebugLevel WHERE ApexCode = '{log_level}'
LevelsFor_None(levels, log_level) == {}
LevelsFor(levels, log_level) == {id \in DOMAIN levels : levels[id].ApexCode = log_level}

\* WHERE Id = '{log_id}' on ApexLog
LogsById(log_id) == SelectSeq(ApexLogs, LAMBDA l : l.Id = log_id)

\* WHERE LogUserId = '{user Id}' ORDER BY LastModifiedDate DESC LIMIT {limit}
LogsOfUser(user_id, limit) == Take(SelectSeq(ApexLogs, LAMBDA l : l.LogUserId = user_id), limit)

\* the expiration sent by the update of an existing trace flag: current_expiration is
\* the ExpirationDate of the query's first record as the remote rendered it
NewExpiration_FromNow(fmt, current_expiration, local_now) == local_now + ExtendSeconds
NewExpiration(fmt, current_expiration, local_now) ==
    IF fmt = "iso" THEN current_expiration + ExtendSeconds
    ELSE local_now + ExtendSeconds

\* existing_trace_flag.get("records") and len(existing_trace_flag["records"]) > 0
HasExisting_Never(existing) == FALSE
HasExisting(existing) == Len(existing) > 0

(* the remote org a run starts from: nothing; one Debug Level and one unexpired  *)
(* trace flag of U1; or two trace flags of U1 with different log types           *)
InitialLevels == (1 :> DebugLevelData("DEBUG"))

InitialFlag2 == TraceFlagData("U1", 1, 0, 1800)

InitialFlag3 ==
    [TracedEntityId |-> "U1", DebugLevelId |-> 1, LogType |-> "DEVELOPER_LOG",
     StartDate |-> 0, ExpirationDate |-> 45]

InitialOrgs ==
    { [levels |-> Empty, flags |-> Empty],
      [levels |-> InitialLevels, flags |-> (2 :> InitialFlag2)],
      [levels |-> InitialLevels, flags |-> (2 :> InitialFlag2) @@ (3 :> InitialFlag3)] }

(* ------------------------------ invocations ---------------------------- *)
Idle ==
    [pc |-> "idle", operation |-> "none", username |-> <<>>, log_level |-> NoneStr,
     expiration_time |-> NoneInt, limit |-> NoneInt, log_id |-> NoneStr,
     include_body |-> FALSE,
     requested |-> NoneInt,   \* the expiration_time argument as it was passed
     records |-> <<>>, user |-> NoUser,
     existing |-> <<>>, fmt |-> "iso", expiration_date |-> 0,
     level_records |-> <<>>, debug_level_id |-> 0,
     trace_flag_ids |-> <<>>, idx |-> 0, delete_count |-> 0, update_count |-> 0,
     delete_error |-> NoError, near_future_expiration |-> 0, apex_log |-> NoLog]

Init ==
    /\ clock = 0
    /\ conn = NoConn
    /\ nextToken = 1
    /\ \E org \in InitialOrgs : debugLevels = org.levels /\ traceFlags = org.flags
    /\ nextId = 4
    /\ inv = [p \in Procs |-> Idle]
    /\ log = [p \in Procs |-> <<>>]
    /\ result = [p \in Procs |-> NoResult]
    /\ pre = [p \in Procs |-> [levels |-> Empty, flags |-> Empty]]
    /\ started = 0
    /\ escaped = [p \in Procs |-> {}]

Resting(p) == inv[p].pc = "idle"

\* the invocation returns res
Return(p, r, res, lg) ==
    /\ inv' = [inv EXCEPT ![p] = [r EXCEPT !.pc = "done"]]
    /\ result' = [result EXCEPT ![p] = res]
    /\ log' = [log EXCEPT ![p] = lg]
    /\ escaped' = [escaped EXCEPT ![p] = {}]

\* the invocation goes on to its next remote call
Goto(p, r, lg) ==
    /\ inv' = [inv EXCEPT ![p] = r]
    /\ log' = [log EXCEPT ![p] = lg]
    /\ result' = [result EXCEPT ![p] = NoResult]
    /\ escaped' = [escaped EXCEPT ![p] = {}]

\* the outer "except Exception as e" of manage_debug_logs
Raise_Retry(p, c) == Goto(p, inv[p], Append(log[p], c))
Raise_NoText(p, c) ==
    Return(p, inv[p], Text("Error managing debug logs: "), Append(log[p], c))
Raise(p, c) ==
    Return(p, inv[p], [Text("Error managing debug logs: ") EXCEPT !.err = ErrorText(c)],
           Append(log[p], c))

(* ------------------- manage_debug_logs: entry and users ---------------- *)
\* the arguments an operation reads; the others keep their defaults
LogLevelsOf(operation) == IF operation = "enable" THEN LogLevels ELSE {NoneStr}
ExpirationTimesOf(operation) ==
    IF operation = "enable" THEN ExpirationTimes ELSE {DefaultExpirationMinutes}
LogIdsOf(operation) == IF operation = "retrieve" THEN LogIds ELSE {NoneStr}
IncludeBodyOf(operation, log_id) ==
    IF operation = "retrieve" /\ log_id # NoneStr THEN BOOLEAN ELSE {FALSE}

\* len(user_query["records"]) > 1 in the broader search
Ambiguous(records) == Len(records) > 1

\* user = user_query["records"][0]
FirstUser(records) == records[1]

\* the code after user resolution, up to the operation's first remote call
Resolved_Disabling(p, r0, lg) ==
    Goto(p, [r0 EXCEPT !.user = FirstUser(r0.records), !.pc = "dis_query"], lg)
Resolved(p, r0, lg) ==
    LET r == [r0 EXCEPT !.user = FirstUser(r0.records)] IN
    IF ~r.user.IsActive
    THEN Return(p, r, Text("Warning: User exists but is inactive. Debug logs may not be generated for inactive users."), lg)
    ELSE IF r.operation = "enable"
    THEN Goto(p, [r EXCEPT !.pc = "tf_query",
                           !.expiration_time = ExpirationOrDefault(r.expiration_time)], lg)
    ELSE IF r.operation = "disable"
    THEN Goto(p, [r EXCEPT !.pc = "dis_query"], lg)
    ELSE IF r.operation = "retrieve"
    THEN Goto(p, [r EXCEPT !.pc = IF r.log_id # NoneStr THEN "log_query" ELSE "logs_query",
                           !.limit = LimitOrDefault(r.limit)], lg)
    ELSE Return(p, r, Text("Invalid operation. Must be one of: enable, disable, retrieve"), lg)

\* after elapsed minutes manage_debug_logs is called: validation, then get_connection()
Enter(p, elapsed, operation, username, log_level, expiration_time, log_id, include_body) ==
    /\ Resting(p)
    /\ started < MaxInvocations
    /\ started' = started + 1
    /\ clock' = clock + elapsed
    /\ pre' = [pre EXCEPT ![p] = [levels |-> debugLevels, flags |-> traceFlags]]
    /\ UNCHANGED <<debugLevels, traceFlags, nextId>>
    /\ LET r == [Idle EXCEPT !.operation = operation, !.username = username,
                             !.log_level = log_level, !.expiration_time = expiration_time,
                             !.requested = expiration_time,
                             !.limit = DefaultLimit, !.log_id = log_id,
                             !.include_body = include_body]
           verr == ValidationError(operation, username, log_level)
           got == Call("GETCONN", "session", 0, TRUE, 0)
       IN  IF verr # ""
           THEN Return(p, r, Text(verr), <<>>) /\ UNCHANGED <<conn, nextToken>>
           ELSE IF NeedsExchange(conn, TRUE)
           THEN \E ok \in BOOLEAN :
                  LET c == Call("POST", "oauth2/token", 0, ok, 0) IN
                  IF ok
                  THEN /\ conn' = Connected(nextToken)
                       /\ nextToken' = nextToken + 1
                       /\ Goto(p, [r EXCEPT !.pc = "user_query"], <<got, c>>)
                  ELSE /\ UNCHANGED <<conn, nextToken>>
                       /\ Return(p, r, [Text("Error managing debug logs: ") EXCEPT !.err = ErrorText(c)],
                                 <<got, c>>)
           ELSE /\ UNCHANGED <<conn, nextToken>>
                /\ Goto(p, [r EXCEPT !.pc = "user_query"], <<got>>)

\* a call made while no other invocation is running
Start(p, elapsed, operation, username, log_level, expiration_time, log_id, include_body) ==
    /\ \A q \in Procs : Resting(q)
    /\ Enter(p, elapsed, operation, username, log_level, expiration_time, log_id, include_body)

Remote == <<clock, conn, nextToken, debugLevels, traceFlags, nextId>>

\* the primary user query
UserQuery(p) ==
    /\ inv[p].pc = "user_query"
    /\ UNCHANGED <<Remote, pre, started>>
    /\ \E ok \in BOOLEAN :
         LET records == PrimaryQuery(inv[p].username)
             c == Call("GET", "User", 0, ok, IF ok THEN Len(records) ELSE 0)
             lg == Append(log[p], c)
             r == [inv[p] EXCEPT !.records = records]
         IN  IF ~ok THEN Raise(p, c)
             ELSE IF NeedsBroadSearch(records) THEN Goto(p, [r EXCEPT !.pc = "user_query2"], lg)
             ELSE Resolved(p, r, lg)

\* the broader search, after a primary query without records
UserQuery2(p) ==
    /\ inv[p].pc = "user_query2"
    /\ UNCHANGED <<Remote, pre, started>>
    /\ \E ok \in BOOLEAN :
         LET records == BroadQuery(inv[p].username)
             c == Call("GET", "UserBroad", 0, ok, IF ok THEN Len(records) ELSE 0)
             lg == Append(log[p], c)
             r == [inv[p] EXCEPT !.records = records]
         IN  IF ~ok THEN Raise(p, c)
             ELSE IF NobodyFound(records)
             THEN Return(p, r, Text("Error: No user found matching"), lg)
             ELSE IF Ambiguous(records)
             THEN Return(p, r, [Text("Multiple users found matching") EXCEPT !.users = Listing(records)], lg)
             ELSE Resolved(p, r, lg)

(* ------------------------------- enable -------------------------------- *)
\* the records of a tooling query on TraceFlag, in the order the remote returns them
FlagRecords(order) ==
    [i \in 1..Len(order) |->
        [Id |-> order[i], DebugLevelId |-> traceFlags[order[i]].DebugLevelId,
         ExpirationDate |-> traceFlags[order[i]].ExpirationDate]]

\* the trace-flag query of enable, then expiration_date
TfQuery(p) ==
    /\ inv[p].pc = "tf_query"
    /\ UNCHANGED <<Remote, pre, started>>
    /\ \E ok \in BOOLEAN :
         LET found == Unexpired(traceFlags, inv[p].user.Id, UtcNow)
             c == Call("GET", "TraceFlag", 0, ok, IF ok THEN Cardinality(found) ELSE 0)
         IN  IF ~ok THEN Raise(p, c)
             ELSE \E order \in Orderings(found) :
                  \E fmt \in IF found = {} THEN {"iso"} ELSE DateFormats :
                    Goto(p, [inv[p] EXCEPT !.pc = "dl_query",
                                           !.existing = FlagRecords(order),
                                           !.fmt = fmt,
                                           !.expiration_date = LocalNow + 60 * inv[p].expiration_time],
                         Append(log[p], c))

\* where enable goes once debug_level_id is known
AfterLevel(existing) == IF HasExisting(existing) THEN "tf_patch" ELSE "tf_create"

\* debug_level_id = debug_level_query["records"][0]["Id"]
FirstLevel_Last(records) == records[Len(records)]
FirstLevel(records) == records[1]

\* the Debug Level lookup
DlQuery(p) ==
    /\ inv[p].pc = "dl_query"
    /\ UNCHANGED <<Remote, pre, started>>
    /\ \E ok \in BOOLEAN :
         LET found == LevelsFor(debugLevels, inv[p].log_level)
             c == Call("GET", "DebugLevel", 0, ok, IF ok THEN Cardinality(found) ELSE 0)
             lg == Append(log[p], c)
         IN  IF ~ok THEN Raise(p, c)
             ELSE IF found = {}
             THEN Goto(p, [inv[p] EXCEPT !.pc = "dl_create"], lg)
             ELSE \E records \in Orderings(found) :
                    Goto(p, [inv[p] EXCEPT !.pc = AfterLevel(inv[p].existing),
                                           !.level_records = records,
                                           !.debug_level_id = FirstLevel(records)], lg)

\* the Debug Level create
DlCreate(p) ==
    /\ inv[p].pc = "dl_create"
    /\ UNCHANGED <<clock, conn, nextToken, traceFlags, pre, started>>
    /\ \E ok \in BOOLEAN :
         LET c == Call("POST", "DebugLevel", IF ok THEN nextId ELSE 0, ok, 0) IN
         IF ~ok THEN Raise(p, c) /\ UNCHANGED <<debugLevels, nextId>>
         ELSE /\ debugLevels' = debugLevels @@ (nextId :> DebugLevelData(inv[p].log_level))
              /\ nextId' = nextId + 1
              /\ Goto(p, [inv[p] EXCEPT !.pc = AfterLevel(inv[p].existing),
                                        !.debug_level_id = nextId],
                      Append(log[p], c))

\* update_data of the existing trace flag
UpdateData(new_expiration, debug_level_id) ==
    [TracedEntityId |-> "none", DebugLevelId |-> debug_level_id, LogType |-> "none",
     StartDate |-> 0, ExpirationDate |-> new_expiration]

\* a PATCH of the fields sent applied to a record
Patched(rec, sent, body) ==
    [f \in DOMAIN rec |-> IF f \in sent THEN body[f] ELSE rec[f]]

\* trace_flag = existing_trace_flag["records"][0]
FirstFlag_Last(existing) == existing[Len(existing)]
FirstFlag(existing) == existing[1]

\* the update of the first existing trace flag
TfPatch(p) ==
    /\ inv[p].pc = "tf_patch"
    /\ UNCHANGED <<clock, conn, nextToken, debugLevels, nextId, pre, started>>
    /\ \E fault \in BOOLEAN :
         LET trace_flag == FirstFlag(inv[p].existing)
             new_expiration == NewExpiration(inv[p].fmt, trace_flag.ExpirationDate, LocalNow)
             sent == {"ExpirationDate", "DebugLevelId"}
             body == UpdateData(new_expiration, inv[p].debug_level_id)
             ok == ~fault /\ trace_flag.Id \in DOMAIN traceFlags
             c == WithBody(Call("PATCH", "TraceFlag", trace_flag.Id, ok, 0), sent, body)
         IN  IF ~ok THEN Raise(p, c) /\ UNCHANGED traceFlags
             ELSE /\ traceFlags' = [traceFlags EXCEPT
                                      ![trace_flag.Id] = Patched(@, sent, body)]
                  /\ Return(p, inv[p],
                            [Text("Successfully updated debug log expiration") EXCEPT
                               !.level = inv[p].log_level, !.exp = new_expiration,
                               !.id = trace_flag.Id],
                            Append(log[p], c))

\* the create of a new trace flag
TfCreate(p) ==
    /\ inv[p].pc = "tf_create"
    /\ UNCHANGED <<clock, conn, nextToken, debugLevels, pre, started>>
    /\ \E ok \in BOOLEAN :
         LET body == TraceFlagData(inv[p].user.Id, inv[p].debug_level_id, LocalNow,
                                   inv[p].expiration_date)
             c == WithBody(Call("POST", "TraceFlag", IF ok THEN nextId ELSE 0, ok, 0),
                           DOMAIN body, body)
         IN  IF ~ok THEN Raise(p, c) /\ UNCHANGED <<traceFlags, nextId>>
             ELSE /\ traceFlags' = traceFlags @@ (nextId :> body)
                  /\ nextId' = nextId + 1
                  /\ Return(p, inv[p],
                            [Text("Successfully enabled debug logs") EXCEPT
                               !.level = inv[p].log_level, !.exp = inv[p].expiration_date,
                               !.minutes = inv[p].expiration_time, !.id = nextId],
                            Append(log[p], c))

(* ------------------------------- disable ------------------------------- *)
\* the trace-flag query of disable
DisQuery(p) ==
    /\ inv[p].pc = "dis_query"
    /\ UNCHANGED <<Remote, pre, started>>
    /\ \E ok \in BOOLEAN :
         LET found == Unexpired(traceFlags, inv[p].user.Id, UtcNow)
             c == Call("GET", "TraceFlag", 0, ok, IF ok THEN Cardinality(found) ELSE 0)
             lg == Append(log[p], c)
         IN  IF ~ok THEN Raise(p, c)
             ELSE \E order \in Orderings(found) :
                    IF NoActiveFlags(order)
                    THEN Return(p, inv[p], Text("No active debug logs found for user"), lg)
                    ELSE Goto(p, [inv[p] EXCEPT !.pc = "dis_delete", !.trace_flag_ids = order,
                                                !.idx = 1, !.delete_count = 0], lg)

\* the ids the fallback patches when the deletion of trace_flag_ids[idx] failed:
\* [tf["Id"] for tf in trace_flags["records"]], all of them again
FallbackIds_Remaining(trace_flag_ids, idx) == SubSeq(trace_flag_ids, idx, Len(trace_flag_ids))
FallbackIds(trace_flag_ids, idx) == trace_flag_ids

\* one DELETE of the deletion loop; a failure enters the fallback
DisDelete(p) ==
    /\ inv[p].pc = "dis_delete"
    /\ UNCHANGED <<clock, conn, nextToken, debugLevels, nextId, pre, started>>
    /\ \E fault \in BOOLEAN :
         LET r == inv[p]
             id == r.trace_flag_ids[r.idx]
             ok == ~fault /\ id \in DOMAIN traceFlags
             c == Call("DELETE", "TraceFlag", id, ok, 0)
             lg == Append(log[p], c)
         IN  IF ~ok
             THEN /\ UNCHANGED traceFlags
                  /\ Goto(p, [r EXCEPT !.pc = "dis_patch", !.delete_error = ErrorText(c),
                                       !.trace_flag_ids = FallbackIds(r.trace_flag_ids, r.idx),
                                       !.near_future_expiration = LocalNow + 60 * NearFutureMinutes,
                                       !.idx = 1, !.update_count = 0], lg)
             ELSE /\ traceFlags' = Without(traceFlags, id)
                  /\ IF r.idx = Len(r.trace_flag_ids)
                     THEN Return(p, [r EXCEPT !.delete_count = @ + 1],
                                 [Text("Successfully disabled debug log configuration(s) by removing them.")
                                    EXCEPT !.count = r.delete_count + 1], lg)
                     ELSE Goto(p, [r EXCEPT !.delete_count = @ + 1, !.idx = @ + 1], lg)

\* the error the fallback reports when one of its PATCHes fails too
FallbackError_OfPatch(delete_error, update_error) == update_error
FallbackError(delete_error, update_error) == delete_error

\* one PATCH of the fallback loop
DisPatch(p) ==
    /\ inv[p].pc = "dis_patch"
    /\ UNCHANGED <<clock, conn, nextToken, debugLevels, nextId, pre, started>>
    /\ \E fault \in BOOLEAN :
         LET r == inv[p]
             id == r.trace_flag_ids[r.idx]
             sent == {"ExpirationDate"}
             body == UpdateData(r.near_future_expiration, 0)
             ok == ~fault /\ id \in DOMAIN traceFlags
             c == WithBody(Call("PATCH", "TraceFlag", id, ok, 0), sent, body)
             lg == Append(log[p], c)
         IN  IF ~ok
             THEN /\ UNCHANGED traceFlags
                  /\ Return(p, r, [Text("Error disabling debug logs: ") EXCEPT
                                     !.err = FallbackError(r.delete_error, ErrorText(c))], lg)
             ELSE /\ traceFlags' = [traceFlags EXCEPT ![id] = Patched(@, sent, body)]
                  /\ IF r.idx = Len(r.trace_flag_ids)
                     THEN Return(p, [r EXCEPT !.update_count = @ + 1],
                                 [Text("Successfully disabled debug log configuration(s). They will expire in 5 minutes.")
                                    EXCEPT !.count = r.update_count + 1], lg)
                     ELSE Goto(p, [r EXCEPT !.update_count = @ + 1, !.idx = @ + 1], lg)

(* ------------------------------- retrieve ------------------------------ *)
\* str(e) of the ValueError datetime.fromisoformat raises for a date it rejects
ParseError == <<"ValueError", "fromisoformat", 0>>

\* the metadata block of one log, with or without the log's body
LogDetails(apex_log, with_body) ==
    [Text("**Log Details:**") EXCEPT !.details = apex_log, !.body = with_body]

\* the text returned when the body could not be had
BodyFailure_WithDetails(apex_log, err) == [LogDetails(apex_log, FALSE) EXCEPT !.err = err]
BodyFailure(apex_log, err) == [Text("Error retrieving log body: ") EXCEPT !.err = err]

\* the query for one log by Id
LogQuery(p) ==
    /\ inv[p].pc = "log_query"
    /\ UNCHANGED <<Remote, pre, started>>
    /\ \E ok \in BOOLEAN :
         LET found == LogsById(inv[p].log_id)
             c == Call("GET", "ApexLog", 0, ok, IF ok THEN Len(found) ELSE 0)
             lg == Append(log[p], c)
         IN  IF ~ok
             THEN Return(p, inv[p], [Text("Error retrieving log: ") EXCEPT !.err = ErrorText(c)], lg)
             ELSE IF NoRecords(found)
             THEN Return(p, inv[p], Text("No log found with ID"), lg)
             ELSE IF inv[p].include_body
             THEN Goto(p, [inv[p] EXCEPT !.pc = "log_body", !.apex_log = found[1]], lg)
             ELSE \E fmt \in DateFormats :
                    Return(p, [inv[p] EXCEPT !.apex_log = found[1], !.fmt = fmt],
                           IF fmt = "iso" THEN LogDetails(found[1], FALSE)
                           ELSE [Text("Error retrieving log: ") EXCEPT !.err = ParseError], lg)

\* the fetch of the log's body
LogBody(p) ==
    /\ inv[p].pc = "log_body"
    /\ UNCHANGED <<Remote, pre, started>>
    /\ \E ok \in BOOLEAN :
         LET c == Call("GET", "ApexLogBody", 0, ok, 0)
             lg == Append(log[p], c)
         IN  IF ~ok
             THEN Return(p, inv[p], BodyFailure(inv[p].apex_log, ErrorText(c)), lg)
             ELSE \E fmt \in DateFormats :
                    Return(p, [inv[p] EXCEPT !.fmt = fmt],
                           IF fmt = "iso" THEN LogDetails(inv[p].apex_log, TRUE)
                           ELSE BodyFailure(inv[p].apex_log, ParseError), lg)

\* the query for the user's recent logs
LogsQuery(p) ==
    /\ inv[p].pc = "logs_query"
    /\ UNCHANGED <<Remote, pre, started>>
    /\ \E ok \in BOOLEAN :
         LET found == LogsOfUser(inv[p].user.Id, inv[p].limit)
             c == Call("GET", "ApexLog", 0, ok, IF ok THEN Len(found) ELSE 0)
             lg == Append(log[p], c)
         IN  IF ~ok THEN Raise(p, c)
             ELSE IF NoRecords(found)
             THEN Return(p, inv[p], Text("No debug logs found for user"), lg)
             ELSE \E fmt \in DateFormats :
                    Return(p, [inv[p] EXCEPT !.fmt = fmt],
                           IF fmt = "iso"
                           THEN [Text("Found debug logs for user") EXCEPT !.count = Len(found)]
                           ELSE [Text("Error managing debug logs: ") EXCEPT !.err = ParseError], lg)

(* ------------------------- the adapters and tools ---------------------- *)
\* whether the function calls get_connection() inside its try block
ConnectionInsideTry(tool) == tool = "manage_debug_logs"

\* whether an exception of get_connection() leaves the adapter function
LeavesAdapter(tool) == ~ConnectionInsideTry(tool)

\* whether an exception leaving the adapter leaves the server tool wrapping it:
\* every tool of server.py calls its adapter inside try/except Exception
LeavesTool(tool) == FALSE

\* the boundaries an exception raised by get_connection() crosses
Crossed(tool) ==
    (IF LeavesAdapter(tool) THEN {"adapter"} ELSE {})
    \cup (IF LeavesAdapter(tool) /\ LeavesTool(tool) THEN {"tool"} ELSE {})

\* a call of one of the eight adapter tools, from the server tool to its return
CallAdapter(p, tool) ==
    /\ \A q \in Procs : Resting(q)
    /\ started < MaxInvocations
    /\ started' = started + 1
    /\ pre' = [pre EXCEPT ![p] = [levels |-> debugLevels, flags |-> traceFlags]]
    /\ UNCHANGED <<clock, debugLevels, traceFlags, nextId>>
    /\ inv' = [inv EXCEPT ![p] = [Idle EXCEPT !.pc = "done", !.operation = tool]]
    /\ LET got == Call("GETCONN", "session", 0, TRUE, 0) IN
       IF NeedsExchange(conn, TRUE)
       THEN \E ok \in BOOLEAN :
              LET c == Call("POST", "oauth2/token", 0, ok, 0) IN
              /\ log' = [log EXCEPT ![p] = <<got, c>>]
              /\ IF ok
                 THEN /\ conn' = Connected(nextToken)
                      /\ nextToken' = nextToken + 1
                      /\ escaped' = [escaped EXCEPT ![p] = {}]
                      /\ \E fine \in BOOLEAN :
                           result' = [result EXCEPT ![p] =
                                        IF fine THEN Text("table") ELSE Text("Error")]
                 ELSE /\ UNCHANGED <<conn, nextToken>>
                      /\ escaped' = [escaped EXCEPT ![p] = Crossed(tool)]
                      /\ result' = [result EXCEPT ![p] =
                                      [Text("Error") EXCEPT !.err = ErrorText(c)]]
       ELSE /\ UNCHANGED <<conn, nextToken>>
            /\ log' = [log EXCEPT ![p] = <<got>>]
            /\ escaped' = [escaped EXCEPT ![p] = {}]
            /\ \E fine \in BOOLEAN :
                 result' = [result EXCEPT ![p] = IF fine THEN Text("table") ELSE Text("Error")]

\* the text check_salesforce_connection returns once it has the session:
\* connection_status is "Successful", or "Partially working" with the error
ConnectionReport(c) ==
    IF c.ok THEN [Text("Salesforce connection is active.") EXCEPT !.count = c.n]
    ELSE [Text("Salesforce connection is active.") EXCEPT !.err = ErrorText(c)]

\* check_salesforce_connection: get_connection(), get_connection_info() (which
\* finds _connection_info stored), then sf.describe() inside its own try
CheckConnection(p) ==
    /\ \A q \in Procs : Resting(q)
    /\ started < MaxInvocations
    /\ started' = started + 1
    /\ pre' = [pre EXCEPT ![p] = [levels |-> debugLevels, flags |-> traceFlags]]
    /\ UNCHANGED <<clock, debugLevels, traceFlags, nextId>>
    /\ inv' = [inv EXCEPT ![p] = [Idle EXCEPT !.pc = "done",
                                              !.operation = "check_salesforce_connection"]]
    /\ escaped' = [escaped EXCEPT ![p] = {}]
    /\ LET got == Call("GETCONN", "session", 0, TRUE, 0) IN
       \E ok, described \in BOOLEAN :
         LET c == Call("POST", "oauth2/token", 0, ok, 0)
             d == Call("GET", "describe", 0, described, IF described THEN 1 ELSE 0)
         IN  IF NeedsExchange(conn, TRUE) /\ ~ok
             THEN /\ described
                  /\ UNCHANGED <<conn, nextToken>>
                  /\ log' = [log EXCEPT ![p] = <<got, c>>]
                  /\ result' = [result EXCEPT ![p] =
                                  [Text("Error connecting to Salesforce: ") EXCEPT
                                     !.err = ErrorText(c)]]
             ELSE IF NeedsExchange(conn, TRUE)
             THEN /\ conn' = Connected(nextToken)
                  /\ nextToken' = nextToken + 1
                  /\ log' = [log EXCEPT ![p] = <<got, c, d>>]
                  /\ result' = [result EXCEPT ![p] = ConnectionReport(d)]
             ELSE /\ ok
                  /\ UNCHANGED <<conn, nextToken>>
                  /\ log' = [log EXCEPT ![p] = <<got, d>>]
                  /\ result' = [result EXCEPT ![p] = ConnectionReport(d)]

(* ------------------------------- the caller ---------------------------- *)
\* the caller has the returned string; the invocation's frame is gone
Returned(p) ==
    /\ inv[p].pc = "done"
    /\ inv' = [inv EXCEPT ![p] = Idle]
    /\ log' = [log EXCEPT ![p] = <<>>]
    /\ result' = [result EXCEPT ![p] = NoResult]
    /\ pre' = [pre EXCEPT ![p] = [levels |-> Empty, flags |-> Empty]]
    /\ escaped' = [escaped EXCEPT ![p] = {}]
    /\ UNCHANGED <<Remote, started>>

(* ----------------------------- specification --------------------------- *)
Call_manage_debug_logs(p) ==
    \E elapsed \in 0..(MaxTicks - clock), operation \in Operations, username \in Usernames :
    \E log_level \in LogLevelsOf(operation), expiration_time \in ExpirationTimesOf(operation),
       log_id \in LogIdsOf(operation) :
    \E include_body \in IncludeBodyOf(operation, log_id) :
        Start(p, elapsed, operation, username, log_level, expiration_time, log_id, include_body)

Next ==
    \/ \E p \in SeqProcs :
         \/ Call_manage_debug_logs(p)
         \/ UserQuery(p)
         \/ UserQuery2(p)
         \/ TfQuery(p)
         \/ DlQuery(p)
         \/ DlCreate(p)
         \/ TfPatch(p)
         \/ TfCreate(p)
         \/ DisQuery(p)
         \/ DisDelete(p)
         \/ DisPatch(p)
         \/ LogQuery(p)
         \/ LogBody(p)
         \/ LogsQuery(p)
         \/ Returned(p)
         \/ \E tool \in Adapters : CallAdapter(p, tool)
         \/ CheckConnection(p)

Spec == Init /\ [][Next]_vars

(* -------------------------- enable calls in sequence ------------------- *)

\* the remote orgs the enable calls start from: those above, and one with two
\* Debug Levels whose ApexCode is DEBUG, one of them set up by hand with the
\* database at FINEST
InitEnable ==
    /\ clock = 0
    /\ conn = NoConn
    /\ nextToken = 1
    /\ \E org \in InitialOrgs \cup
                   { [levels |-> InitialLevels
                                 @@ (3 :> [DebugLevelData("DEBUG") EXCEPT
                                             !.DeveloperName = "Custom",
                                             !.MasterLabel = "Custom",
                                             !.Database = "FINEST"]),
                      flags |-> (2 :> InitialFlag2)] } :
          debugLevels = org.levels /\ traceFlags = org.flags
    /\ nextId = 4
    /\ inv = [p \in Procs |-> Idle]
    /\ log = [p \in Procs |-> <<>>]
    /\ result = [p \in Procs |-> NoResult]
    /\ pre = [p \in Procs |-> [levels |-> Empty, flags |-> Empty]]
    /\ started = 0
    /\ escaped = [p \in Procs |-> {}]

\* an enable call: one of two users, one of two levels, and an expiration_time
\* omitted, zero or positive
Call_enable(p) ==
    \E elapsed \in 0..(MaxTicks - clock), username \in { <<"a", "@">>, <<"c", "@">> },
       log_level \in {"DEBUG", "FINE"}, expiration_time \in {NoneInt, 0, 2} :
        Start(p, elapsed, "enable", username, log_level, expiration_time, NoneStr, FALSE)

NextEnable ==
    \E p \in SeqProcs :
        \/ Call_enable(p)
        \/ UserQuery(p)
        \/ TfQuery(p)
        \/ DlQuery(p)
        \/ DlCreate(p)
        \/ TfPatch(p)
        \/ TfCreate(p)
        \/ Returned(p)

SpecEnable == InitEnable /\ [][NextEnable]_vars

(* ----------------------- two enable calls at a time -------------------- *)
\* an enable for the user a@ is called, whatever the other invocation is doing
Call_concurrently(p) ==
    \E elapsed \in 0..(MaxTicks - clock), log_level \in {"DEBUG", "FINE"} :
        Enter(p, elapsed, "enable", <<"a", "@">>, log_level, NoneInt, NoneStr, FALSE)

\* the hosting process runs the remote calls of the two invocations in any order
NextRace ==
    \E p \in Procs :
        \/ Call_concurrently(p)
        \/ UserQuery(p)
        \/ TfQuery(p)
        \/ DlQuery(p)
        \/ DlCreate(p)
        \/ TfPatch(p)
        \/ TfCreate(p)

SpecRace == Init /\ [][NextRace]_vars

(* ------------------- get_connection, called on its own ----------------- *)
\* the attributes of get_connection after authenticate raised: the assignments
\* that follow it were not reached
AfterFailure_Cleared(c) == NoConn
AfterFailure(c) == c

\* one call get_connection(cached): the log entry holds the argument, the
\* session returned (0: the call raised) and the number of exchanges performed
GetConnection(p, cached) ==
    /\ Len(log[p]) < MaxCalls
    /\ UNCHANGED <<clock, debugLevels, traceFlags, nextId, inv, pre, started>>
    /\ LET mode == IF cached THEN "cached" ELSE "fresh" IN
       IF NeedsExchange(conn, cached)
       THEN \E ok \in BOOLEAN :
              IF ok
              THEN /\ conn' = Connected(nextToken)
                   /\ nextToken' = nextToken + 1
                   /\ log' = [log EXCEPT ![p] = Append(@, Call("GETCONN", mode, nextToken, TRUE, 1))]
                   /\ result' = [result EXCEPT ![p] = [Text("session") EXCEPT !.id = nextToken]]
                   /\ escaped' = [escaped EXCEPT ![p] = {}]
              ELSE /\ conn' = AfterFailure(conn)
                   /\ UNCHANGED nextToken
                   /\ log' = [log EXCEPT ![p] = Append(@, Call("GETCONN", mode, 0, FALSE, 1))]
                   /\ result' = [result EXCEPT ![p] = NoResult]
                   /\ escaped' = [escaped EXCEPT ![p] = {"get_connection"}]
       ELSE /\ UNCHANGED <<conn, nextToken>>
            /\ log' = [log EXCEPT ![p] = Append(@, Call("GETCONN", mode, conn.instance, TRUE, 0))]
            /\ result' = [result EXCEPT ![p] = [Text("session") EXCEPT !.id = conn.instance]]
            /\ escaped' = [escaped EXCEPT ![p] = {}]

NextConn == \E p \in SeqProcs, cached \in BOOLEAN : GetConnection(p, cached)

SpecConn == Init /\ [][NextConn]_vars

(* ----------------------------- query_records -------------------------- *)
\* Optional[int]: None is <<>>, the integer n is <<n>>
None == <<>>
Some(n) == <<n>>

\* the limit query_salesforce_records passes on to query_records
ToolLimit_Uncapped(limit) ==
    IF limit # None /\ limit[1] < 1 THEN Some(1) ELSE limit
ToolLimit(limit) ==
    IF limit # None
    THEN IF limit[1] < 1 THEN Some(1)
         ELSE IF limit[1] > ToolMaxLimit THEN Some(ToolMaxLimit)
         ELSE limit
    ELSE limit

\* the limit query_records places in the query
RecordLimit(limit) ==
    IF limit = None THEN RecordDefaultLimit
    ELSE IF limit[1] < 1 THEN 1
    ELSE IF limit[1] > RecordMaxLimit THEN RecordMaxLimit
    ELSE limit[1]

\* the SOQL text: SELECT {fields} FROM {object_name} [WHERE ..] [ORDER BY ..] LIMIT {limit}
Soql(object_name, fields, where_clause, order_by, limit) ==
    [select |-> fields, from |-> object_name,
     where |-> IF where_clause # <<>> THEN where_clause ELSE <<>>,
     order |-> IF order_by # <<>> THEN order_by ELSE <<>>,
     limit |-> limit]

(* values of a record's fields: a string, None, a bool, an int or a nested record *)
StrV(s) == [k |-> "str", v |-> s]
NoneV == [k |-> "none", v |-> <<>>]
BoolV(b) == [k |-> "bool", v |-> b]
IntV(n) == [k |-> "int", v |-> n]
DictV(d) == [k |-> "dict", v |-> d]

\* str() of a non-negative int
RECURSIVE IntStr(_)
IntStr(n) ==
    LET d == <<"0", "1", "2", "3", "4", "5", "6", "7", "8", "9">>[(n % 10) + 1] IN
    IF n < 10 THEN <<d>> ELSE IntStr(n \div 10) \o <<d>>

\* s.replace(old, new) for a one-character old
RECURSIVE Replace(_, _, _)
Replace(s, old, new) ==
    IF s = <<>> THEN <<>>
    ELSE IF Len(s) = 1 THEN (IF s[1] = old THEN new ELSE s)
    ELSE LET half == Len(s) \div 2 IN
         Replace(SubSeq(s, 1, half), old, new) \o Replace(SubSeq(s, half + 1, Len(s)), old, new)

\* field.split(".")
RECURSIVE Split(_, _)
Split(s, sep) ==
    IF \A i \in 1..Len(s) : s[i] # sep THEN <<s>>
    ELSE LET i == CHOOSE k \in 1..Len(s) : s[k] = sep /\ \A j \in 1..(k - 1) : s[j] # sep
         IN  <<SubSeq(s, 1, i - 1)>> \o Split(SubSeq(s, i + 1, Len(s)), sep)

\* sep.join(parts)
RECURSIVE Join(_, _)
Join(parts, sep) ==
    IF parts = <<>> THEN <<>>
    ELSE IF Len(parts) = 1 THEN parts[1]
    ELSE parts[1] \o sep \o Join(Tail(parts), sep)

\* d.get(key, "")
Get(d, key) == IF key \in DOMAIN d THEN d[key] ELSE StrV(<<>>)

\* the walk through the parts of a relationship field
Walk_Shallow(value, parts) == Get(value.v, Head(parts))
RECURSIVE Walk(_, _)
Walk(value, parts) ==
    IF parts = <<>> THEN value
    ELSE IF value.k = "dict" THEN Walk(Get(value.v, Head(parts)), Tail(parts))
    ELSE StrV(<<>>)

\* the value of a field of a record
FieldValue(record, field) ==
    IF HasChar(field, ".") THEN Walk(DictV(record), Split(field, "."))
    ELSE Get(record, field)

\* the text of a table cell
FormatValue_Raw(value) ==
    IF value.k = "none" THEN <<>>
    ELSE IF value.k = "bool" THEN (IF value.v THEN <<"T", "r", "u", "e">> ELSE <<"F", "a", "l", "s", "e">>)
    ELSE IF value.k = "int" THEN IntStr(value.v)
    ELSE IF value.k = "dict" THEN <<"{", "}">>
    ELSE value.v
FormatValue(value) ==
    IF value.k = "none" THEN <<>>
    ELSE IF value.k = "bool" THEN (IF value.v THEN <<"T", "r", "u", "e">> ELSE <<"F", "a", "l", "s", "e">>)
    ELSE IF value.k = "int" THEN IntStr(value.v)
    ELSE IF value.k = "dict" THEN <<"{", "}">>
    ELSE Replace(Replace(value.v, "\n", <<" ">>), "|", <<"\\", "|">>)

\* "| " + " | ".join(cells) + " |\n"
Row(cells) == <<"|", " ">> \o Join(cells, <<" ", "|", " ">>) \o <<" ", "|", "\n">>

\* "|" + "|".join(["-" * (len(f) + 2) for f in fields]) + "|\n"
Rule(fields) ==
    <<"|">> \o Join([i \in 1..Len(fields) |-> [j \in 1..(Len(fields[i]) + 2) |-> "-"]], <<"|">>)
           \o <<"|", "\n">>

\* the rows of the table, one per record
RECURSIVE Rows(_, _)
Rows(records, fields) ==
    IF records = <<>> THEN <<>>
    ELSE Row([j \in 1..Len(fields) |-> FormatValue(FieldValue(Head(records), fields[j]))])
         \o Rows(Tail(records), fields)

\* the text query_records returns for a response with records
Table(query, results, fields) ==
    [text |-> "Query: ", query |-> query, total |-> results.totalSize,
     displayed |-> Len(results.records),
     table |-> Row(fields) \o Rule(fields) \o Rows(results.records, fields),
     err |-> NoError]

(* the records of the org a query may match, most recent first *)
Account1 ==
    (<<"N">> :> StrV(<<"a", "|", "b">>)) @@ (<<"I">> :> IntV(17))
    @@ (<<"O">> :> DictV((<<"N">> :> StrV(<<"x", "\n", "y">>))
                         @@ (<<"P">> :> DictV((<<"Q">> :> IntV(5))))))

\* what a query matches: nothing, or up to three records, one of them with
\* None for N and O, one with the field I only
Matchings ==
    { <<>>,
      <<Account1>>,
      << (<<"N">> :> NoneV) @@ (<<"I">> :> BoolV(TRUE)) @@ (<<"O">> :> NoneV), Account1 >>,
      << (<<"I">> :> StrV(<<"z">>)), Account1,
         (<<"N">> :> NoneV) @@ (<<"I">> :> BoolV(TRUE)) @@ (<<"O">> :> NoneV) >> }

\* the response of sf.query for a query matching these records
Results(matching, limit, batch) ==
    [totalSize |-> Len(Take(matching, limit)), records |-> Take(Take(matching, limit), batch)]

\* the frame of a call of query_salesforce_records or of query_records
QueryFrame(layer, object_name, fields, where_clause, order_by, limit) ==
    [pc |-> IF layer = "query_records" THEN "connect" ELSE "tool",
     operation |-> layer, object_name |-> object_name, fields |-> fields,
     where_clause |-> where_clause, order_by |-> order_by, limit |-> limit,
     given |-> limit, query |-> Soql(<<>>, <<>>, <<>>, <<>>, 0),
     results |-> [totalSize |-> 0, records |-> <<>>]]

\* one call of the query tool or of the adapter is about to run
InitQueries(objects, lists, wheres, orders, limits) ==
    /\ clock = 0
    /\ conn = NoConn
    /\ nextToken = 1
    /\ debugLevels = Empty /\ traceFlags = Empty
    /\ nextId = 4
    /\ \E layer \in {"query_salesforce_records", "query_records"}, object_name \in objects, fields \in lists,
          where_clause \in wheres, order_by \in orders, limit \in limits :
          inv = [p \in Procs |->
                   IF p \in SeqProcs
                   THEN QueryFrame(layer, object_name, fields, where_clause, order_by, limit)
                   ELSE Idle]
    /\ log = [p \in Procs |-> <<>>]
    /\ result = [p \in Procs |-> NoResult]
    /\ pre = [p \in Procs |-> [levels |-> Empty, flags |-> Empty]]
    /\ started = 1
    /\ escaped = [p \in Procs |-> {}]

\* the text an exception becomes: both layers format it the same way
QueryError(c) == [Text("Error querying records: ") EXCEPT !.err = ErrorText(c)]

\* query_salesforce_records up to its call of query_records
QueryTool(p) ==
    /\ inv[p].pc = "tool"
    /\ UNCHANGED <<Remote, pre, started>>
    /\ LET r == inv[p] IN
       IF r.object_name = <<>>
       THEN Return(p, r, Text("Error: Object name is required"), log[p])
       ELSE IF r.fields = <<>>
       THEN Return(p, r, Text("Error: At least one field must be specified"), log[p])
       ELSE Goto(p, [r EXCEPT !.pc = "connect", !.limit = ToolLimit(r.limit)], log[p])

\* query_records: get_connection(), before its try block
QueryConnect(p) ==
    /\ inv[p].pc = "connect"
    /\ UNCHANGED <<clock, debugLevels, traceFlags, nextId, pre, started>>
    /\ LET got == Call("GETCONN", "session", 0, TRUE, 0) IN
       IF NeedsExchange(conn, TRUE)
       THEN \E ok \in BOOLEAN :
              LET c == Call("POST", "oauth2/token", 0, ok, 0) IN
              IF ok
              THEN /\ conn' = Connected(nextToken)
                   /\ nextToken' = nextToken + 1
                   /\ Goto(p, [inv[p] EXCEPT !.pc = "query"], <<got, c>>)
              ELSE /\ UNCHANGED <<conn, nextToken>>
                   /\ inv' = [inv EXCEPT ![p].pc = "done"]
                   /\ log' = [log EXCEPT ![p] = <<got, c>>]
                   /\ escaped' = [escaped EXCEPT ![p] =
                                     IF inv[p].operation = "query_records"
                                     THEN {"adapter", "caller"} ELSE {"adapter"}]
                   /\ result' = [result EXCEPT ![p] =
                                   IF inv[p].operation = "query_records"
                                   THEN NoResult ELSE QueryError(c)]
       ELSE /\ UNCHANGED <<conn, nextToken>>
            /\ Goto(p, [inv[p] EXCEPT !.pc = "query"], <<got>>)

\* query_records: the limit, the query, sf.query and the formatting
QueryRecords(p) ==
    /\ inv[p].pc = "query"
    /\ UNCHANGED <<Remote, pre, started>>
    /\ LET r0 == inv[p]
           limit == RecordLimit(r0.limit)
           query == Soql(r0.object_name, r0.fields, r0.where_clause, r0.order_by, limit)
           r == [r0 EXCEPT !.limit = Some(limit), !.query = query]
       IN  \E fault \in BOOLEAN, matching \in Matchings, batch \in {2, RecordMaxLimit} :
             LET ok == ~fault /\ r.fields # <<>> /\ r.object_name # <<>>
                 results == Results(matching, limit, batch)
                 c == Call("GET", "query", 0, ok, IF ok THEN Len(results.records) ELSE 0)
                 lg == Append(log[p], c)
             IN  IF ~ok THEN Return(p, r, QueryError(c), lg)
                 ELSE IF NoRecords(results.records)
                 THEN Return(p, [r EXCEPT !.results = results],
                             Text("No records found for query: "), lg)
                 ELSE Return(p, [r EXCEPT !.results = results],
                             Table(query, results, r.fields), lg)

NextQuery == \E p \in SeqProcs : QueryTool(p) \/ QueryConnect(p) \/ QueryRecords(p)

\* every limit, with the other arguments fixed
SpecLimit ==
    /\ InitQueries({<<"A">>}, {<<<<"N">>>>}, {<<>>}, {<<>>},
                   {None} \cup {Some(n) : n \in -2..MaxLimit})
    /\ [][NextQuery]_vars

\* every shape of the other arguments, with a few limits
SpecQuery ==
    /\ InitQueries({ <<>>, <<"A">> },
                   { <<>>, <<<<"N">>>>, <<<<"N">>, <<"I">>>>, <<<<"I">>, <<"O", ".", "N">>>> },
                   { <<>>, <<"w">> }, { <<>>, <<"o">> },
                   {None, Some(0), Some(1), Some(2), Some(3)})
    /\ [][NextQuery]_vars

\* lists of relationship fields: paths that end on a value, on a missing key, on
\* None, inside a string or an int, and on a nested record
SpecWalk ==
    /\ InitQueries({<<"A">>},
                   { <<<<"O", ".", "N">>>>,
                     <<<<"O", ".", "X">>, <<"N", ".", "N">>>>,
                     <<<<"I", ".", "N">>, <<"O", ".", "N", ".", "X">>>>,
                     <<<<"O", ".", "P", ".", "Q">>, <<"X", ".", "N">>>>,
                     <<<<"O", ".", "P">>, <<"O", ".", "P", ".", "X">>, <<"O", ".">>>> },
                   {<<>>}, {<<>>}, {None, Some(1), Some(3)})
    /\ [][NextQuery]_vars

(* --------------------------- get_picklist_values ----------------------- *)
\* entries of a field's picklistValues
PickValue(value, label, default, active) ==
    [value |-> value, label |-> label, defaultValue |-> default, active |-> active]

\* a field of an object's describe
Field(name, type, label, values) ==
    [name |-> name, type |-> type, label |-> label, picklistValues |-> values]

NoField == Field(<<>>, "none", <<>>, <<>>)

StatusValues ==
    << PickValue(<<"n">>, <<"N">>, TRUE, TRUE), PickValue(<<"a", "|", "b">>, <<"A">>, FALSE, FALSE) >>

\* describe["fields"] of the objects of the org
Describes ==
    { << Field(<<"S">>, "picklist", <<"s">>, StatusValues),
         Field(<<"M">>, "multipicklist", <<"m">>, <<>>),
         Field(<<"N">>, "string", <<"n">>, <<>>),
         Field(<<"s">>, "boolean", <<"b">>, <<>>) >>,
      << Field(<<"N">>, "reference", <<"n">>, <<>>),
         Field(<<"M">>, "picklist", <<"m">>, Tail(StatusValues)) >>,
      << >> }

\* next((f for f in describe["fields"] if f["name"] == field_name), None)
FindField(fields, field_name) ==
    LET found == SelectSeq(fields, LAMBDA f : f.name = field_name) IN
    IF found = <<>> THEN NoField ELSE found[1]

\* field["type"] in ("picklist", "multipicklist")
IsPicklistType_Single(type) == type = "picklist"
IsPicklistType(type) == type \in {"picklist", "multipicklist"}

YesNo(b) == IF b THEN <<"Y", "e", "s">> ELSE <<"N", "o">>

\* the rows of the table, one per picklist value
RECURSIVE PicklistRows(_)
PicklistRows(values) ==
    IF values = <<>> THEN <<>>
    ELSE Row(<< Replace(Head(values).value, "|", <<"\\", "|">>),
                Replace(Head(values).label, "|", <<"\\", "|">>),
                YesNo(Head(values).defaultValue), YesNo(Head(values).active) >>)
         \o PicklistRows(Tail(values))

PicklistHeader == << <<"Value">>, <<"Label">>, <<"Default">>, <<"Active">> >>

\* the text get_picklist_values returns for a describe that was answered
PicklistText(object_name, field_name, field) ==
    LET r == [text |-> "", object |-> object_name, field |-> field_name, type |-> "none",
              label |-> <<>>, table |-> <<>>, err |-> NoError]
    IN  IF field = NoField
        THEN [r EXCEPT !.text = "Field not found on object"]
        ELSE IF ~IsPicklistType(field.type)
        THEN [r EXCEPT !.text = "Field is not a picklist field (type: )", !.type = field.type]
        ELSE [r EXCEPT !.text = "Picklist values for", !.label = field.label,
                       !.table = Row(PicklistHeader) \o Rule(PicklistHeader)
                                 \o PicklistRows(field.picklistValues)]

PicklistError(object_name, field_name, c) ==
    [text |-> "Error getting picklist values for", object |-> object_name,
     field |-> field_name, type |-> "none", label |-> <<>>, table |-> <<>>,
     err |-> ErrorText(c)]

PicklistFrame(layer, object_name, field_name) ==
    [pc |-> "pl_connect", operation |-> layer, object_name |-> object_name,
     field_name |-> field_name, fields |-> <<>>, field |-> NoField]

\* one call of the picklist tool or of the adapter is about to run
InitPicklist ==
    /\ clock = 0
    /\ conn = NoConn
    /\ nextToken = 1
    /\ debugLevels = Empty /\ traceFlags = Empty
    /\ nextId = 4
    /\ \E layer \in {"get_salesforce_picklist_values", "get_picklist_values"},
          object_name \in {<<"A">>, <<"C">>},
          field_name \in { <<>>, <<"S">>, <<"M">>, <<"N">>, <<"s">>, <<"m">>, <<"X">> } :
          inv = [p \in Procs |->
                   IF p \in SeqProcs THEN PicklistFrame(layer, object_name, field_name) ELSE Idle]
    /\ log = [p \in Procs |-> <<>>]
    /\ result = [p \in Procs |-> NoResult]
    /\ pre = [p \in Procs |-> [levels |-> Empty, flags |-> Empty]]
    /\ started = 1
    /\ escaped = [p \in Procs |-> {}]

\* get_picklist_values: get_connection(), before its try block
PicklistConnect(p) ==
    /\ inv[p].pc = "pl_connect"
    /\ UNCHANGED <<clock, debugLevels, traceFlags, nextId, pre, started>>
    /\ LET got == Call("GETCONN", "session", 0, TRUE, 0) IN
       IF NeedsExchange(conn, TRUE)
       THEN \E ok \in BOOLEAN :
              LET c == Call("POST", "oauth2/token", 0, ok, 0) IN
              IF ok
              THEN /\ conn' = Connected(nextToken)
                   /\ nextToken' = nextToken + 1
                   /\ Goto(p, [inv[p] EXCEPT !.pc = "pl_describe"], <<got, c>>)
              ELSE /\ UNCHANGED <<conn, nextToken>>
                   /\ inv' = [inv EXCEPT ![p].pc = "done"]
                   /\ log' = [log EXCEPT ![p] = <<got, c>>]
                   /\ escaped' = [escaped EXCEPT ![p] =
                                     IF inv[p].operation = "get_picklist_values"
                                     THEN {"adapter", "caller"} ELSE {"adapter"}]
                   /\ result' = [result EXCEPT ![p] =
                                   IF inv[p].operation = "get_picklist_values"
                                   THEN NoResult
                                   ELSE PicklistError(inv[p].object_name, inv[p].field_name, c)]
       ELSE /\ UNCHANGED <<conn, nextToken>>
            /\ Goto(p, [inv[p] EXCEPT !.pc = "pl_describe"], <<got>>)

\* get_picklist_values: the describe of the object, the field and the text
PicklistDescribe(p) ==
    /\ inv[p].pc = "pl_describe"
    /\ UNCHANGED <<Remote, pre, started>>
    /\ \E ok \in BOOLEAN, fields \in Describes :
         LET r == inv[p]
             c == Call("GET", "describe", 0, ok, IF ok THEN Len(fields) ELSE 0)
             lg == Append(log[p], c)
             field == FindField(fields, r.field_name)
         IN  IF ~ok
             THEN /\ fields = <<>>
                  /\ Return(p, r, PicklistError(r.object_name, r.field_name, c), lg)
             ELSE Return(p, [r EXCEPT !.fields = fields, !.field = field],
                         PicklistText(r.object_name, r.field_name, field), lg)

NextPicklist == \E p \in SeqProcs : PicklistConnect(p) \/ PicklistDescribe(p)

SpecPicklist == InitPicklist /\ [][NextPicklist]_vars

(* -------------------------- get_validation_rules ----------------------- *)
\* a key the record does not have
Missing == [k |-> "missing", v |-> <<>>]

Opt(key, value) == IF value = Missing THEN Empty ELSE (key :> value)

\* a ValidationRule record of the query's response
ValidationRule(name, active, error_message, error_field, description) ==
    Opt("ValidationName", name) @@ Opt("Active", active)
    @@ Opt("ErrorMessage", error_message) @@ Opt("ErrorDisplayField", error_field)
    @@ Opt("Description", description)

Repeated(c, n) == [i \in 1..n |-> c]

\* result["records"] of the responses: no rule, one rule, or two
RuleResponses ==
    {<<>>}
    \cup {<<ValidationRule(StrV(<<"r">>), BoolV(TRUE), m, f, d)>> :
            m \in {Missing, NoneV, StrV(<<"m", "\n", "s">>), StrV(<<"a", "|", "b">>)},
            f \in {Missing, NoneV, StrV(<<"F">>)},
            d \in {Missing, NoneV, StrV(<<"d">>),
                   StrV(Repeated("d", DescriptionMax)),
                   StrV(Repeated("d", DescriptionMax + 1)),
                   StrV(<<"a", "|">> \o Repeated("d", DescriptionMax))}}
    \cup {<< ValidationRule(Missing, BoolV(FALSE), Missing, Missing, Missing),
             ValidationRule(NoneV, Missing, NoneV, NoneV, NoneV) >>}

\* rule.get(key, default)
RuleGet(rule, key, default) == IF key \in DOMAIN rule THEN rule[key] ELSE default

\* a value inside an f-string
Str(value) ==
    IF value.k = "none" THEN <<"N", "o", "n", "e">>
    ELSE IF value.k = "bool" THEN (IF value.v THEN <<"T", "r", "u", "e">> ELSE <<"F", "a", "l", "s", "e">>)
    ELSE value.v

NA == <<"N", "/", "A">>

\* .replace("\n", " ").replace("|", "\\|")
Escaped(s) == Replace(Replace(s, "\n", <<" ">>), "|", <<"\\", "|">>)

\* error_field = rule.get("ErrorDisplayField", "N/A")
ErrorFieldCell(rule) == Str(RuleGet(rule, "ErrorDisplayField", StrV(NA)))

\* error_message
ErrorMessageCell(rule) ==
    LET error_message == RuleGet(rule, "ErrorMessage", StrV(<<>>)) IN
    IF error_message # NoneV THEN Escaped(error_message.v) ELSE NA

\* description: description[:97] + "..." when it has more than 100 characters
DescriptionCell(rule) ==
    LET description == RuleGet(rule, "Description", StrV(<<>>)) IN
    IF description = NoneV THEN NA
    ELSE IF Len(description.v) > DescriptionMax
    THEN Escaped(SubSeq(description.v, 1, DescriptionKept) \o <<".", ".", ".">>)
    ELSE Escaped(description.v)

\* the rows of the table, one per rule
RECURSIVE RuleRows(_)
RuleRows(records) ==
    IF records = <<>> THEN <<>>
    ELSE Row(<< Str(RuleGet(Head(records), "ValidationName", StrV(NA))),
                YesNo(RuleGet(Head(records), "Active", BoolV(FALSE)) = BoolV(TRUE)),
                ErrorMessageCell(Head(records)),
                ErrorFieldCell(Head(records)), DescriptionCell(Head(records)) >>)
         \o RuleRows(Tail(records))

RulesHeader ==
    << <<"N", "a", "m", "e">>, <<"A", "c", "t", "i", "v", "e">>,
       <<"E", "r", "r", "o", "r", " ", "M", "e", "s", "s", "a", "g", "e">>,
       <<"E", "r", "r", "o", "r", " ", "F", "i", "e", "l", "d">>,
       <<"D", "e", "s", "c", "r", "i", "p", "t", "i", "o", "n">> >>

\* the text get_validation_rules returns for a query that was answered
RulesText(object_name, records) ==
    LET r == [text |-> "", object |-> object_name, count |-> 0, table |-> <<>>,
              err |-> NoError]
    IN  IF NoRecords(records)
        THEN [r EXCEPT !.text = "No validation rules found for ."]
        ELSE [r EXCEPT !.text = "Found validation rules for :", !.count = Len(records),
                       \* the header, "|------|--------|--------------|------------|-------------|\n"
                       \* and the rows
                       !.table = Row(RulesHeader)
                                 \o <<"|">>
                                 \o Join(<<Repeated("-", 6), Repeated("-", 8), Repeated("-", 14),
                                           Repeated("-", 12), Repeated("-", 13)>>, <<"|">>)
                                 \o <<"|", "\n">>
                                 \o RuleRows(records)]

\* the text an exception becomes, in the adapter and in the tool
RulesError(layer, object_name, c) ==
    [text |-> IF layer = "tool" THEN "Error retrieving validation rules for : "
              ELSE "Error retrieving validation rules: ",
     object |-> IF layer = "tool" THEN object_name ELSE <<>>,
     count |-> 0, table |-> <<>>, err |-> ErrorText(c)]

RulesFrame(layer, object_name) ==
    [pc |-> IF layer = "get_validation_rules" THEN "vr_connect" ELSE "vr_tool",
     operation |-> layer, object_name |-> object_name, records |-> <<>>]

\* one call of the validation-rule tool or of the adapter is about to run
InitRules ==
    /\ clock = 0
    /\ conn = NoConn
    /\ nextToken = 1
    /\ debugLevels = Empty /\ traceFlags = Empty
    /\ nextId = 4
    /\ \E layer \in {"get_salesforce_validation_rules", "get_validation_rules"},
          object_name \in {<<>>, <<"A">>} :
          inv = [p \in Procs |->
                   IF p \in SeqProcs THEN RulesFrame(layer, object_name) ELSE Idle]
    /\ log = [p \in Procs |-> <<>>]
    /\ result = [p \in Procs |-> NoResult]
    /\ pre = [p \in Procs |-> [levels |-> Empty, flags |-> Empty]]
    /\ started = 1
    /\ escaped = [p \in Procs |-> {}]

\* get_salesforce_validation_rules up to its call of get_validation_rules
RulesTool(p) ==
    /\ inv[p].pc = "vr_tool"
    /\ UNCHANGED <<Remote, pre, started>>
    /\ IF inv[p].object_name = <<>>
       THEN Return(p, inv[p], Text("Error: Object name is required"), log[p])
       ELSE Goto(p, [inv[p] EXCEPT !.pc = "vr_connect"], log[p])

\* get_validation_rules: get_connection(), before its try block
RulesConnect(p) ==
    /\ inv[p].pc = "vr_connect"
    /\ UNCHANGED <<clock, debugLevels, traceFlags, nextId, pre, started>>
    /\ LET got == Call("GETCONN", "session", 0, TRUE, 0) IN
       IF NeedsExchange(conn, TRUE)
       THEN \E ok \in BOOLEAN :
              LET c == Call("POST", "oauth2/token", 0, ok, 0) IN
              IF ok
              THEN /\ conn' = Connected(nextToken)
                   /\ nextToken' = nextToken + 1
                   /\ Goto(p, [inv[p] EXCEPT !.pc = "vr_query"], <<got, c>>)
              ELSE /\ UNCHANGED <<conn, nextToken>>
                   /\ inv' = [inv EXCEPT ![p].pc = "done"]
                   /\ log' = [log EXCEPT ![p] = <<got, c>>]
                   /\ escaped' = [escaped EXCEPT ![p] =
                                     IF inv[p].operation = "get_validation_rules"
                                     THEN {"adapter", "caller"} ELSE {"adapter"}]
                   /\ result' = [result EXCEPT ![p] =
                                   IF inv[p].operation = "get_validation_rules"
                                   THEN NoResult
                                   ELSE RulesError("tool", inv[p].object_name, c)]
       ELSE /\ UNCHANGED <<conn, nextToken>>
            /\ Goto(p, [inv[p] EXCEPT !.pc = "vr_query"], <<got>>)

\* get_validation_rules: the tooling query and the table
RulesQuery(p) ==
    /\ inv[p].pc = "vr_query"
    /\ UNCHANGED <<Remote, pre, started>>
    /\ \E ok \in BOOLEAN, records \in RuleResponses :
         LET r == inv[p]
             c == Call("GET", "ValidationRule", 0, ok, IF ok THEN Len(records) ELSE 0)
             lg == Append(log[p], c)
         IN  IF ~ok
             THEN /\ records = <<>>
                  /\ Return(p, r, RulesError("adapter", r.object_name, c), lg)
             ELSE Return(p, [r EXCEPT !.records = records],
                         RulesText(r.object_name, records), lg)

NextRules == \E p \in SeqProcs : RulesTool(p) \/ RulesConnect(p) \/ RulesQuery(p)

SpecRules == InitRules /\ [][NextRules]_vars

(* ================================ claims =============================== *)
Started(p) == inv[p].pc # "idle"

Done(p) == inv[p].pc = "done"

Entries(p) == 1..Len(log[p])

\* a call of this kind is in the invocation's log
Issued(p, m, o) == \E i \in Entries(p) : log[p][i].m = m /\ log[p][i].o = o

\* a query on o answered with a number of records in N
Answered(p, o, N) ==
    \E i \in Entries(p) :
        log[p][i].m = "GET" /\ log[p][i].o = o /\ log[p][i].ok /\ log[p][i].n \in N

\* the calls that change records of the remote org (the token exchange changes none)
Mutations(p) == {i \in Entries(p) : log[p][i].m \in Mutating /\ log[p][i].o # "oauth2/token"}

FlagsOf(flags, user_id) == {id \in DOMAIN flags : flags[id].TracedEntityId = user_id}

Succeeded(p) ==
    /\ Done(p)
    /\ result[p].text \in {"Successfully enabled debug logs",
                           "Successfully updated debug log expiration"}

TraceFlagCreates(p) ==
    {i \in Entries(p) : log[p][i].m = "POST" /\ log[p][i].o = "TraceFlag"}

\* the Debug Level the create at log position i refers to was found by this
\* call's lookup or created earlier in this call
LevelResolved(p, i) ==
    LET dl == log[p][i].body.DebugLevelId IN
    \/ /\ Answered(p, "DebugLevel", 1..Cardinality(DOMAIN debugLevels))
       /\ dl \in LevelsFor(pre[p].levels, inv[p].log_level)
    \/ \E j \in 1..(i - 1) :
         /\ log[p][j].m = "POST" /\ log[p][j].o = "DebugLevel" /\ log[p][j].ok
         /\ log[p][j].id = dl

\* C1: a successful enable whose trace-flag query returned no unexpired flag issued
\* exactly one TraceFlag create, bound to the resolved user, whose DebugLevelId is
\* an existing Debug Level found by the lookup or created earlier in the call
C1_EnableCreatesOneFlag ==
    \A p \in Procs :
        (inv[p].operation = "enable" /\ Succeeded(p) /\ Answered(p, "TraceFlag", {0}))
        => /\ Cardinality(TraceFlagCreates(p)) = 1
           /\ \A i \in TraceFlagCreates(p) :
                /\ log[p][i].ok
                /\ log[p][i].body.TracedEntityId = inv[p].user.Id
                /\ log[p][i].body.DebugLevelId \in DOMAIN debugLevels
                /\ LevelResolved(p, i)
                /\ log[p][i].id \in DOMAIN traceFlags
                /\ traceFlags[log[p][i].id] = log[p][i].body

C1_Witness ==
    \E p \in Procs :
        /\ inv[p].operation = "enable" /\ Succeeded(p) /\ Answered(p, "TraceFlag", {0})
        /\ Issued(p, "POST", "DebugLevel")
        /\ Cardinality(TraceFlagCreates(p)) = 1

\* C2: an enable whose trace-flag query returned at least one unexpired flag issues
\* no TraceFlag create, and the user has as many trace flags as before the call,
\* at every point of the call and whatever its outcome
C2_EnableExistingNeverCreates ==
    \A p \in Procs :
        (inv[p].operation = "enable" /\ Answered(p, "TraceFlag", 1..Cardinality(DOMAIN traceFlags)))
        => /\ TraceFlagCreates(p) = {}
           /\ Cardinality(FlagsOf(traceFlags, inv[p].user.Id))
                = Cardinality(FlagsOf(pre[p].flags, inv[p].user.Id))

C2_Witness ==
    \E p \in Procs :
        /\ inv[p].operation = "enable" /\ Done(p)
        /\ Answered(p, "TraceFlag", 1..Cardinality(DOMAIN traceFlags))
        /\ result[p].text = "Successfully updated debug log expiration"
        /\ Issued(p, "PATCH", "TraceFlag")

\* C3: an enable for a user whose only trace flag is unexpired leaves exactly one
\* trace flag for that user, with an expiration not earlier than before the call
\* (so two calls in succession leave one flag and never shorten it)
C3_EnableNeverShortens ==
    \A p \in Procs :
        (/\ inv[p].operation = "enable" /\ Done(p)
         /\ Answered(p, "TraceFlag", {1})
         /\ Cardinality(FlagsOf(pre[p].flags, inv[p].user.Id)) = 1)
        => /\ Cardinality(FlagsOf(traceFlags, inv[p].user.Id)) = 1
           /\ \A id \in FlagsOf(pre[p].flags, inv[p].user.Id) :
                /\ id \in DOMAIN traceFlags
                /\ traceFlags[id].ExpirationDate >= pre[p].flags[id].ExpirationDate

\* every failed PATCH of the invocation was sent for a record deleted earlier in it
OnlyPatchesOfDeletedFail(p) ==
    \A i \in Entries(p) :
        (log[p][i].m = "PATCH" /\ ~log[p][i].ok)
        => \E j \in 1..(i - 1) :
             log[p][j].m = "DELETE" /\ log[p][j].ok /\ log[p][j].id = log[p][i].id

\* C4: after a disable, every trace flag its query returned has been deleted or has
\* the expiration of the fallback, 5 minutes from now (stated for the calls in which
\* the remote refuses no PATCH of a record that exists)
C4_DisableLeavesNoFlagAsFound ==
    \A p \in Procs :
        (/\ inv[p].operation = "disable" /\ Done(p)
         /\ Answered(p, "TraceFlag", 1..Cardinality(DOMAIN pre[p].flags))
         /\ OnlyPatchesOfDeletedFail(p))
        => \A k \in 1..Len(inv[p].trace_flag_ids) :
             LET id == inv[p].trace_flag_ids[k] IN
             \/ id \notin DOMAIN traceFlags
             \/ /\ \E i \in Entries(p) :
                     log[p][i].m = "PATCH" /\ log[p][i].ok /\ log[p][i].id = id
                /\ traceFlags[id].ExpirationDate = inv[p].near_future_expiration

\* C5: a disable whose trace-flag query returned no record returns "No active debug
\* logs found for user", has issued no POST, PATCH or DELETE, and leaves the Debug
\* Levels and Trace Flags of the org as they were (so does every repetition)
C5_DisableNothingActive ==
    \A p \in Procs :
        (inv[p].operation = "disable" /\ Answered(p, "TraceFlag", {0}))
        => /\ Done(p)
           /\ result[p].text = "No active debug logs found for user"
           /\ Mutations(p) = {}
           /\ traceFlags = pre[p].flags
           /\ debugLevels = pre[p].levels

C5_Witness ==
    \E p \in Procs :
        /\ inv[p].operation = "disable" /\ Done(p) /\ Answered(p, "TraceFlag", {0})
        /\ result[p].text = "No active debug logs found for user"
        /\ started > 1

\* C6: whenever user resolution matched more than one user, the call returns the
\* listing of all of them and issues no mutating call
C6_AmbiguousNeverOperates ==
    \A p \in Procs :
        Len(inv[p].records) > 1
        => /\ Done(p)
           /\ result[p].text = "Multiple users found matching"
           /\ result[p].users = Listing(inv[p].records)
           /\ Mutations(p) = {}

OperationCalls(p) ==
    {i \in Entries(p) : log[p][i].o \in {"TraceFlag", "DebugLevel", "ApexLog", "ApexLogBody"}}

\* C7: when resolution yields exactly one user and the user is inactive, the
\* requested operation is still carried out
C7_InactiveUserStillServed ==
    \A p \in Procs :
        (/\ Done(p) /\ inv[p].operation \in {"enable", "disable", "retrieve"}
         /\ Len(inv[p].records) = 1 /\ ~inv[p].records[1].IsActive)
        => OperationCalls(p) # {}

\* C8: the broader user search is issued if and only if the primary query returned
\* no record; when it returns none either, the call returns "No user found" and
\* the broader search was its last remote call
C8_BroadSearchOnlyAfterEmptyPrimary ==
    \A p \in Procs :
        /\ Issued(p, "GET", "UserBroad") => Answered(p, "User", {0})
        /\ Answered(p, "User", {0}) => (inv[p].pc = "user_query2" \/ Issued(p, "GET", "UserBroad"))
        /\ Answered(p, "UserBroad", {0})
           => /\ Done(p)
              /\ result[p].text = "Error: No user found matching"
              /\ log[p][Len(log[p])].o = "UserBroad"
              /\ Mutations(p) = {}
              /\ traceFlags = pre[p].flags /\ debugLevels = pre[p].levels

C8_Witness ==
    \E p \in Procs :
        /\ Done(p) /\ Answered(p, "User", {0}) /\ Answered(p, "UserBroad", {0})
        /\ result[p].text = "Error: No user found matching"

MissingArgument(p) ==
    /\ inv[p].operation \in Operations
    /\ \/ inv[p].username = <<>>
       \/ inv[p].operation = "enable" /\ inv[p].log_level = NoneStr

\* C9: with an empty username, or with enable and no log_level, the call returns
\* the error naming the missing argument without a get_connection() and without
\* any remote call
C9_ValidationBeforeSession ==
    \A p \in Procs :
        (Started(p) /\ MissingArgument(p))
        => /\ Done(p)
           /\ log[p] = <<>>
           /\ result[p].text = IF inv[p].username = <<>>
                               THEN "Error: Username is required"
                               ELSE "Error: Log level is required for 'enable' operation"

C9_Witness ==
    \E p \in Procs :
        /\ Done(p) /\ inv[p].operation = "enable" /\ inv[p].username # <<>>
        /\ inv[p].log_level = NoneStr /\ ~HasInstance(conn)
        /\ result[p].text = "Error: Log level is required for 'enable' operation"

\* C10: no exception leaves an adapter function or manage_debug_logs, nor the
\* server tool wrapping it: every call returns a string
C10_NoExceptionLeavesAdapter ==
    \A p \in Procs : Done(p) => (escaped[p] = {} /\ result[p].text # "")

\* the credential exchanges in a call log
Exchanges(lg) == {i \in 1..Len(lg) : lg[i].o = "oauth2/token"}

\* C11: a tool invocation that reaches get_connection() with no cached session
\* attempts the exchange once; a rejected exchange caches nothing and the tool
\* returns an error string holding the failure (so the next invocation attempts
\* it again); a granted exchange caches the session; with a cached session no
\* exchange is attempted and the session is kept
C11_ExchangeUntilSessionCached ==
    [][\A p \in Procs :
         (Resting(p) /\ log'[p] # <<>>)
         => IF HasInstance(conn)
            THEN Exchanges(log'[p]) = {} /\ conn' = conn
            ELSE /\ Cardinality(Exchanges(log'[p])) = 1
                 /\ \A i \in Exchanges(log'[p]) :
                      IF log'[p][i].ok
                      THEN HasInstance(conn')
                      ELSE /\ conn' = NoConn
                           /\ inv'[p].pc = "done"
                           /\ i = Len(log'[p])
                           /\ result'[p].text \in {"Error managing debug logs: ", "Error",
                                                   "Error connecting to Salesforce: "}
                           /\ result'[p].err = ErrorText(log'[p][i])
                           /\ "tool" \notin escaped'[p]]_vars

\* a later invocation whose exchange was rejected while no session was cached
C11_Witness ==
    \E p \in Procs :
        /\ Done(p) /\ started > 1 /\ ~HasInstance(conn)
        /\ \E i \in Exchanges(log[p]) : ~log[p][i].ok
        /\ result[p].err # NoError

\* the calls before position i of a log whose exchange was granted
Granted(lg, i) == {j \in 1..(i - 1) : lg[j].n = 1 /\ lg[j].ok}

\* the session stored by the last granted exchange before position i (0: none)
LastGranted(lg, i) ==
    IF Granted(lg, i) = {} THEN 0
    ELSE lg[CHOOSE j \in Granted(lg, i) : \A k \in Granted(lg, i) : k <= j].id

\* C12: in every sequence of get_connection calls, a call with cached=True made
\* while a session is cached performs no exchange and returns that session; a call
\* with cached=False, or made with nothing cached, performs exactly one exchange
\* and, when it is granted, returns a new session; every call that returns returns
\* the session of the most recent granted exchange, which is the cached one
C12_ReturnsLatestSession ==
    \A p \in SeqProcs :
        /\ \A i \in Entries(p) :
             LET e == log[p][i] IN
             /\ e.n = IF e.o = "cached" /\ LastGranted(log[p], i) # 0 THEN 0 ELSE 1
             /\ e.n = 0 => (e.ok /\ e.id = LastGranted(log[p], i))
             /\ (e.n = 1 /\ e.ok) => (e.id # 0 /\ \A j \in 1..(i - 1) : log[p][j].id # e.id)
             /\ e.ok => e.id = LastGranted(log[p], i + 1)
        /\ conn.instance = LastGranted(log[p], Len(log[p]) + 1)
        /\ (log[p] # <<>> /\ log[p][Len(log[p])].ok) => result[p].id = conn.instance

\* a forced refresh replaced a cached session, and a later cached call returned it
C12_Witness ==
    \E p \in Procs : \E i, j \in Entries(p) :
        /\ i < j /\ j = Len(log[p])
        /\ log[p][i].o = "fresh" /\ log[p][i].ok /\ LastGranted(log[p], i) # 0
        /\ log[p][j].o = "cached" /\ log[p][j].n = 0 /\ log[p][j].id = log[p][i].id
        /\ result[p].id = log[p][i].id

\* a query was sent by the call
Executed(p) == inv[p].pc = "done" /\ Issued(p, "GET", "query")

\* C13: the LIMIT of the executed query is 10 when the limit is omitted, 1 when it
\* is below 1, 2000 when it is above 2000 in a direct call of query_records, 100
\* when it is above 100 in a call through query_salesforce_records, and the limit
\* given otherwise
C13_LimitClamped ==
    \A p \in SeqProcs :
        Executed(p)
        => LET given == inv[p].given
               direct == inv[p].operation = "query_records"
           IN  inv[p].query.limit =
                 IF given = None THEN 10
                 ELSE IF given[1] < 1 THEN 1
                 ELSE IF direct /\ given[1] > 2000 THEN 2000
                 ELSE IF ~direct /\ given[1] > 100 THEN 100
                 ELSE given[1]

\* a limit above both maxima, given to the tool, was executed as 100
C13_Witness ==
    \E p \in SeqProcs :
        /\ Executed(p) /\ inv[p].operation = "query_salesforce_records"
        /\ inv[p].given # None /\ inv[p].given[1] > 2000
        /\ inv[p].query.limit = 100

\* the failed calls of a method in the invocation's log
Failed(p, m) == {i \in Entries(p) : log[p][i].m = m /\ ~log[p][i].ok}

\* C14: a disable in which a deletion failed and a PATCH of the fallback failed
\* too returns "Error disabling debug logs: " with the text of the deletion error,
\* not that of the PATCH error
C14_DeletionErrorSurfaced ==
    \A p \in Procs :
        (/\ inv[p].operation = "disable" /\ Done(p)
         /\ Failed(p, "DELETE") # {} /\ Failed(p, "PATCH") # {})
        => /\ result[p].text = "Error disabling debug logs: "
           /\ \A i \in Failed(p, "DELETE") : result[p].err = ErrorText(log[p][i])
           /\ \A j \in Failed(p, "PATCH") : result[p].err # ErrorText(log[p][j])

\* the deletion of one flag failed after another was deleted, and a PATCH failed
C14_Witness ==
    \E p \in Procs :
        /\ inv[p].operation = "disable" /\ Done(p)
        /\ Failed(p, "DELETE") # {} /\ Failed(p, "PATCH") # {}
        /\ inv[p].delete_count = 1
        /\ result[p].text = "Error disabling debug logs: "

\* the remote calls of the invocation that failed (the session is not one of them)
FailedCalls(p) == {i \in Entries(p) : ~log[p][i].ok /\ log[p][i].o # "oauth2/token"}

\* the records the successful creates of the invocation made are in the org
CreatesStand(p) ==
    \A j \in Entries(p) :
        (log[p][j].m = "POST" /\ log[p][j].ok)
        => /\ log[p][j].o = "DebugLevel"
              => /\ log[p][j].id \in DOMAIN debugLevels
                 /\ debugLevels[log[p][j].id] = DebugLevelData(inv[p].log_level)
           /\ log[p][j].o = "TraceFlag" => log[p][j].id \in DOMAIN traceFlags

\* C15: in enable, a failed remote call is the last call of the invocation, which
\* returns "Error managing debug logs: " with the failure's text; what was done
\* before stands: the records present at the start are unchanged and a Debug Level
\* created earlier in the call still exists
C15_EnableFailureAbortsNoRollback ==
    \A p \in Procs :
        (inv[p].operation = "enable" /\ FailedCalls(p) # {})
        => /\ Done(p)
           /\ FailedCalls(p) = {Len(log[p])}
           /\ result[p].text = "Error managing debug logs: "
           /\ result[p].err = ErrorText(log[p][Len(log[p])])
           /\ CreatesStand(p)
           /\ \A id \in DOMAIN pre[p].levels :
                id \in DOMAIN debugLevels /\ debugLevels[id] = pre[p].levels[id]
           /\ traceFlags = pre[p].flags

\* the TraceFlag create failed after this call had created a Debug Level
C15_Witness ==
    \E p \in Procs :
        /\ inv[p].operation = "enable" /\ Done(p)
        /\ \E i, j \in Entries(p) :
             /\ j < i /\ i = Len(log[p])
             /\ log[p][j].m = "POST" /\ log[p][j].o = "DebugLevel" /\ log[p][j].ok
             /\ log[p][i].m = "POST" /\ log[p][i].o = "TraceFlag" /\ ~log[p][i].ok
             /\ log[p][j].id \in DOMAIN debugLevels
             /\ log[p][j].id \notin DOMAIN pre[p].levels

\* the fetch of the log's body failed after the log's metadata had been fetched
BodyFetchFailed(p) ==
    /\ inv[p].operation = "retrieve"
    /\ Answered(p, "ApexLog", {1})
    /\ \E i \in Entries(p) : log[p][i].o = "ApexLogBody" /\ ~log[p][i].ok

\* C16: a retrieve whose metadata query succeeded and whose body fetch failed
\* returns only "Error retrieving log body: " with the failure's text and nothing
\* of the metadata; no returned text holds both the metadata block and an error
C16_BodyFailureDiscardsMetadata ==
    \A p \in Procs :
        /\ BodyFetchFailed(p)
           => /\ Done(p)
              /\ inv[p].apex_log # NoLog
              /\ result[p].text = "Error retrieving log body: "
              /\ result[p].err = ErrorText(log[p][Len(log[p])])
              /\ result[p].details = NoLog
              /\ ~result[p].body
        /\ ~(result[p].details # NoLog /\ result[p].err # NoError)

C16_Witness ==
    \E p \in Procs :
        /\ BodyFetchFailed(p) /\ Done(p) /\ inv[p].include_body
        /\ inv[p].apex_log.Id = "L1"
        /\ result[p].text = "Error retrieving log body: "

\* every call of the invocation that failed, the credential exchange included
Failures(p) == {i \in Entries(p) : ~log[p][i].ok}

\* the request of a log entry
Request(c) == <<c.m, c.o, c.id>>

\* no call repeats the request of an earlier call that failed
NoRetry(p) ==
    \A i \in Failures(p) : \A j \in Entries(p) :
        i < j => Request(log[p][j]) # Request(log[p][i])

\* C17 (as claimed): when an invocation has returned, a remote call that failed in
\* it was its last remote call and the returned string reports that failure; no
\* call repeats a failed one
C17_AnyFailureIsTerminal ==
    \A p \in Procs :
        Done(p)
        => /\ \A i \in Failures(p) :
                i = Len(log[p]) /\ result[p].err = ErrorText(log[p][i])
           /\ NoRetry(p)

\* a failed deletion of disable and the calls of the fallback that follow it
FallbackFollows(p, i) ==
    /\ inv[p].operation = "disable"
    /\ log[p][i].m = "DELETE"
    /\ inv[p].pc \in {"dis_patch", "done"}
    /\ \A j \in Entries(p) :
         i < j => /\ log[p][j].m = "PATCH" /\ log[p][j].o = "TraceFlag"
                  /\ ~log[p][j].ok => j = Len(log[p])
    /\ Done(p)
       => \/ /\ result[p].text = "Error disabling debug logs: "
             /\ result[p].err = ErrorText(log[p][i])
             /\ ~log[p][Len(log[p])].ok /\ i < Len(log[p])
          \/ /\ result[p].text =
                  "Successfully disabled debug log configuration(s). They will expire in 5 minutes."
             /\ Len(log[p]) = i + Len(inv[p].trace_flag_ids)
             /\ \A j \in Entries(p) : i < j => log[p][j].ok

\* C17 (amended): a failed remote call is the last call of its invocation, which
\* has returned a string holding the failure's text; except in disable, where a
\* failed deletion is followed by the PATCHes of the fallback, the first failed
\* PATCH is the last call and the deletion error is what is returned, and success
\* is returned when every PATCH succeeded; no call repeats a failed one
C17_FailureTerminalButFallback ==
    \A p \in Procs :
        /\ \A i \in Failures(p) :
             \/ FallbackFollows(p, i)
             \/ /\ inv[p].operation = "disable" /\ log[p][i].m = "PATCH"
                /\ Done(p) /\ i = Len(log[p])
                /\ \E d \in Failures(p) : d < i /\ FallbackFollows(p, d)
             \/ /\ Done(p) /\ i = Len(log[p])
                /\ result[p].err = ErrorText(log[p][i])
        /\ NoRetry(p)

\* a disable returned success after a deletion failed and every PATCH succeeded
C17_Witness ==
    \E p \in Procs :
        /\ Done(p) /\ inv[p].operation = "disable"
        /\ Cardinality(Failures(p)) = 1
        /\ \E i \in Failures(p) : log[p][i].m = "DELETE" /\ i < Len(log[p])
        /\ result[p].err = NoError
        /\ inv[p].update_count = Len(inv[p].trace_flag_ids)

\* the lines of a text that ends with a newline
Lines(text) == LET l == Split(text, "\n") IN SubSeq(l, 1, Len(l) - 1)

\* the columns of a table line "| a | b |": what stands between the bars
Columns(line) ==
    LET parts == Split(line, "|") IN
    [k \in 1..(Len(parts) - 2) |-> SubSeq(parts[k + 1], 2, Len(parts[k + 1]) - 1)]

\* query_records returned a table
Tabled(p) == Executed(p) /\ result[p].text = "Query: "

\* C18: a query_records call answered with at least one record returns a table
\* whose header has the fields as its columns, in the order given, with one data
\* row per returned record under the rule, and a summary "Found {totalSize}
\* records. Displaying {number of returned records}."; no other call returns a table
C18_TableMatchesResponse ==
    \A p \in SeqProcs :
        /\ (Executed(p) /\ log[p][Len(log[p])].ok /\ Len(inv[p].results.records) > 0)
           => /\ Tabled(p)
              /\ Columns(Lines(result[p].table)[1]) = inv[p].fields
              /\ Len(Lines(result[p].table)) = 2 + Len(inv[p].results.records)
              /\ result[p].total = inv[p].results.totalSize
              /\ result[p].displayed = Len(inv[p].results.records)
        /\ (inv[p].pc = "done" /\ result[p].text = "Query: ")
           => (Executed(p) /\ Len(inv[p].results.records) > 0)

\* three records matched, two were returned and shown under two columns, one of
\* them with a newline in a value
C18_Witness ==
    \E p \in SeqProcs :
        /\ Tabled(p)
        /\ Len(inv[p].fields) = 2
        /\ result[p].total = 3 /\ result[p].displayed = 2
        /\ \E i \in 1..2 : \E f \in 1..2 :
             LET value == FieldValue(inv[p].results.records[i], inv[p].fields[f]) IN
             value.k = "str" /\ HasChar(value.v, "\n")

\* the describe of the object was answered
Described(p) ==
    /\ inv[p].pc = "done" /\ Issued(p, "GET", "describe") /\ log[p][Len(log[p])].ok

\* the fields of the describe with exactly this name
Named(fields, name) == {i \in 1..Len(fields) : fields[i].name = name}

\* C19: on an object that exists, get_picklist_values returns "Field ... not found
\* on object ..." when no field has exactly the name given and "Field ... is not
\* a picklist field (type: ...)" with the field's type when the field is neither
\* a picklist nor a multipicklist, in both cases without a table; a picklist or
\* multipicklist field gets the table, one row per value; nothing else gets one
C19_PicklistOrMessage ==
    \A p \in SeqProcs :
        /\ Described(p)
           => LET named == Named(inv[p].fields, inv[p].field_name) IN
              IF named = {}
              THEN /\ result[p].text = "Field not found on object"
                   /\ result[p].field = inv[p].field_name
                   /\ result[p].object = inv[p].object_name
                   /\ result[p].table = <<>>
              ELSE LET f == inv[p].fields[CHOOSE i \in named : \A j \in named : i <= j] IN
                   IF f.type \notin {"picklist", "multipicklist"}
                   THEN /\ result[p].text = "Field is not a picklist field (type: )"
                        /\ result[p].field = inv[p].field_name
                        /\ result[p].type = f.type
                        /\ result[p].table = <<>>
                   ELSE /\ result[p].text = "Picklist values for"
                        /\ Len(Lines(result[p].table)) = 2 + Len(f.picklistValues)
                        /\ Columns(Lines(result[p].table)[1]) = PicklistHeader
        /\ (inv[p].pc = "done" /\ ~Described(p)) => result[p].text # "Picklist values for"

\* a field that differs from a picklist's name only by case, of another type
C19_Witness ==
    \E p \in SeqProcs :
        /\ Described(p)
        /\ inv[p].field_name = <<"s">>
        /\ \E i \in 1..Len(inv[p].fields) :
             inv[p].fields[i].name = <<"S">> /\ inv[p].fields[i].type = "picklist"
        /\ result[p].text = "Field is not a picklist field (type: )"
        /\ result[p].type = "boolean"

\* the entries of a method in the invocation's log, and the k-th of them
Sent(p, m) == {i \in Entries(p) : log[p][i].m = m}
Nth(S, k) == CHOOSE i \in S : Cardinality({j \in S : j <= i}) = k

\* the trace flags the query of this disable returned
Found(p) == Unexpired(pre[p].flags, inv[p].user.Id, UtcNow)

\* a PATCH of nothing but the expiration, to 5 minutes from now
ExpirationPatch(c) ==
    /\ c.m = "PATCH" /\ c.o = "TraceFlag"
    /\ c.sent = {"ExpirationDate"}
    /\ c.body.ExpirationDate = LocalNow + 300

FallbackSucceeded(p) ==
    result[p].text =
        "Successfully disabled debug log configuration(s). They will expire in 5 minutes."

\* C20 (as claimed): a disable in which a deletion failed attempted no deletion
\* after it, issued an expiration PATCH for every trace flag its query returned,
\* and reports success only if every PATCH succeeded
C20_FallbackPatchesEveryFlag ==
    \A p \in Procs :
        (inv[p].operation = "disable" /\ Done(p) /\ Failed(p, "DELETE") # {})
        => /\ \A d \in Failed(p, "DELETE") : \A i \in Sent(p, "DELETE") : i <= d
           /\ \A id \in Found(p) :
                \E j \in Sent(p, "PATCH") : log[p][j].id = id /\ ExpirationPatch(log[p][j])
           /\ FallbackSucceeded(p) => Failed(p, "PATCH") = {}

\* C20 (amended): once a deletion has failed no further deletion is attempted; the
\* fallback issues expiration PATCHes (5 minutes from now) for the trace flags the
\* query returned, in the order returned and from the first, already deleted ones
\* included, until one of them fails; it reports success if and only if a PATCH
\* was issued for every returned flag and all succeeded, and the error otherwise
C20_FallbackPatchesInOrder ==
    \A p \in Procs :
        (inv[p].operation = "disable" /\ Failed(p, "DELETE") # {})
        => /\ Cardinality(Failed(p, "DELETE")) = 1
           /\ \A d \in Failed(p, "DELETE") : \A i \in Entries(p) :
                i > d => /\ ExpirationPatch(log[p][i])
                         /\ log[p][i].id \in Found(p)
                         /\ ~log[p][i].ok => i = Len(log[p])
           /\ \A k \in 1..Cardinality(Sent(p, "PATCH")) :
                /\ k <= Cardinality(Sent(p, "DELETE"))
                   => log[p][Nth(Sent(p, "PATCH"), k)].id = log[p][Nth(Sent(p, "DELETE"), k)].id
                /\ \A l \in 1..(k - 1) :
                     log[p][Nth(Sent(p, "PATCH"), k)].id # log[p][Nth(Sent(p, "PATCH"), l)].id
           /\ IF Done(p)
              THEN IF Failed(p, "PATCH") = {}
                   THEN /\ FallbackSucceeded(p)
                        /\ Cardinality(Sent(p, "PATCH")) = Cardinality(Found(p))
                        /\ result[p].count = Cardinality(Found(p))
                   ELSE result[p].text = "Error disabling debug logs: "
              ELSE inv[p].pc = "dis_patch" /\ Failed(p, "PATCH") = {}

\* the fallback sent its first PATCH for a flag the deletion loop had deleted
C20_Witness ==
    \E p \in Procs :
        /\ inv[p].operation = "disable" /\ Done(p) /\ Failed(p, "DELETE") # {}
        /\ \E i \in Sent(p, "DELETE") : \E j \in Sent(p, "PATCH") :
             /\ log[p][i].ok /\ log[p][j].id = log[p][i].id
             /\ log[p][j].id \notin DOMAIN traceFlags
        /\ Cardinality(Found(p)) = 2

\* the enable found an unexpired trace flag and has sent its PATCH
PatchedExisting(p) ==
    /\ inv[p].operation = "enable"
    /\ Answered(p, "TraceFlag", 1..Cardinality(DOMAIN pre[p].flags))
    /\ Sent(p, "PATCH") # {}

FoundSeveral(p) ==
    /\ inv[p].operation = "enable"
    /\ Answered(p, "TraceFlag", 2..Cardinality(DOMAIN pre[p].flags))

\* C22: an enable whose trace-flag query returned two or more unexpired flags
\* patches the first one returned and no other: every other trace flag is as it
\* was before the call, and no flag is deleted
C22_OnlyFirstFlagPatched ==
    \A p \in Procs :
        FoundSeveral(p)
        => /\ Len(inv[p].existing) > 1
           /\ \A i \in Mutations(p) :
                log[p][i].o = "TraceFlag"
                => log[p][i].m = "PATCH" /\ log[p][i].id = inv[p].existing[1].Id
           /\ DOMAIN traceFlags = DOMAIN pre[p].flags
           /\ \A id \in DOMAIN pre[p].flags :
                id # inv[p].existing[1].Id => traceFlags[id] = pre[p].flags[id]

\* the first of two flags was patched and the call returned
C22_Witness ==
    \E p \in Procs :
        /\ FoundSeveral(p) /\ Done(p)
        /\ result[p].text = "Successfully updated debug log expiration"
        /\ \E i \in Sent(p, "PATCH") : log[p][i].ok /\ log[p][i].id = inv[p].existing[1].Id
        /\ \E id \in Found(p) : id # inv[p].existing[1].Id /\ traceFlags[id] = pre[p].flags[id]

\* the enable found no unexpired trace flag and its TraceFlag create succeeded
CreatedFlag(p) ==
    /\ inv[p].operation = "enable"
    /\ Answered(p, "TraceFlag", {0})
    /\ \E i \in TraceFlagCreates(p) : log[p][i].ok

\* C23: the trace flag an enable creates has LogType USER_DEBUG, a start equal to
\* the time of the call and an expiration equal to that time plus the
\* expiration_time minutes passed (30 when none was passed); the message says
\* "enabled" and carries the log level and that expiration
C23_CreatedFlagAsRequested ==
    \A p \in SeqProcs :
        CreatedFlag(p)
        => \A i \in TraceFlagCreates(p) :
             LET minutes == IF inv[p].requested = NoneInt THEN 30 ELSE inv[p].requested IN
             /\ log[p][i].body.LogType = "USER_DEBUG"
             /\ log[p][i].body.StartDate = LocalNow
             /\ log[p][i].body.ExpirationDate = LocalNow + 60 * minutes
             /\ traceFlags[log[p][i].id] = log[p][i].body
             /\ result[p].text = "Successfully enabled debug logs"
             /\ result[p].level = inv[p].log_level
             /\ result[p].exp = log[p][i].body.ExpirationDate

\* the TraceFlag creates and updates the invocation has sent
FlagWrites(p) ==
    {i \in Entries(p) : log[p][i].o = "TraceFlag" /\ log[p][i].m \in {"POST", "PATCH"}}

LevelCreates(p) ==
    {i \in Entries(p) : log[p][i].m = "POST" /\ log[p][i].o = "DebugLevel"}

\* every category of the Debug Level is at log_level
AllCategories(level, log_level) ==
    /\ level.ApexCode = log_level /\ level.ApexProfiling = log_level
    /\ level.Callout = log_level /\ level.Database = log_level
    /\ level.System = log_level /\ level.Validation = log_level
    /\ level.Visualforce = log_level /\ level.Workflow = log_level

\* C24: the Debug Level sent with the TraceFlag create or update of an enable
\* exists and has the requested level as its ApexCode; when the lookup returned
\* records it is the first of them and no Debug Level was created; when the
\* lookup returned none, the call created exactly one Debug Level, every
\* category of which is at the requested level, and sent that one
C24_LevelReusedOrCreatedOnce ==
    \A p \in SeqProcs :
        \A i \in FlagWrites(p) :
            LET dl == log[p][i].body.DebugLevelId
                created == DOMAIN debugLevels \ DOMAIN pre[p].levels
            IN  /\ inv[p].operation = "enable"
                /\ dl \in DOMAIN debugLevels
                /\ debugLevels[dl].ApexCode = inv[p].log_level
                /\ Answered(p, "DebugLevel", 1..Cardinality(DOMAIN debugLevels))
                   <=> LevelsFor(pre[p].levels, inv[p].log_level) # {}
                /\ Answered(p, "DebugLevel", 1..Cardinality(DOMAIN debugLevels))
                   => /\ LevelCreates(p) = {}
                      /\ created = {}
                      /\ Len(inv[p].level_records) =
                            Cardinality(LevelsFor(pre[p].levels, inv[p].log_level))
                      /\ dl = inv[p].level_records[1]
                /\ Answered(p, "DebugLevel", {0})
                   => /\ Cardinality(LevelCreates(p)) = 1
                      /\ \A j \in LevelCreates(p) : j < i /\ log[p][j].ok /\ log[p][j].id = dl
                      /\ created = {dl}
                      /\ AllCategories(debugLevels[dl], inv[p].log_level)

\* an enable for FINE found no Debug Level, created one and a trace flag with it
C24_Witness ==
    \E p \in SeqProcs :
        /\ Succeeded(p) /\ inv[p].log_level = "FINE"
        /\ Answered(p, "DebugLevel", {0})
        /\ Cardinality(LevelCreates(p)) = 1
        /\ \E i \in TraceFlagCreates(p) :
              /\ log[p][i].ok
              /\ debugLevels[log[p][i].body.DebugLevelId] = DebugLevelData("FINE")

\* every key of the path is there, and every value before the last is a nested record
RECURSIVE Reachable(_, _)
Reachable(d, parts) ==
    /\ Head(parts) \in DOMAIN d
    /\ \/ Len(parts) = 1
       \/ d[Head(parts)].k = "dict" /\ Reachable(d[Head(parts)].v, Tail(parts))

\* the value at the end of a path every key of which is there
RECURSIVE Reached(_, _)
Reached(d, parts) ==
    IF Len(parts) = 1 THEN d[Head(parts)] ELSE Reached(d[Head(parts)].v, Tail(parts))

\* C25: a query_records call answered with records returns its table, no
\* exception leaving it, and in the row of every record the cell of every dotted
\* field is empty when a key of the path is missing or a value before the last
\* is None or no nested record, and else the text of the value the path ends on
C25_DottedPathCell ==
    \A p \in SeqProcs :
        (Executed(p) /\ log[p][Len(log[p])].ok /\ Len(inv[p].results.records) > 0)
        => /\ Tabled(p)
           /\ escaped[p] = {}
           /\ \A i \in 1..Len(inv[p].results.records) :
              \A f \in 1..Len(inv[p].fields) :
                LET record == inv[p].results.records[i]
                    parts == Split(inv[p].fields[f], ".")
                    cell == Columns(Lines(result[p].table)[2 + i])[f]
                IN  HasChar(inv[p].fields[f], ".")
                    => cell = IF Reachable(record, parts)
                              THEN FormatValue(Reached(record, parts))
                              ELSE <<>>

\* a table with a row whose cell is the 5 two relationships away, and another
\* row where that cell is empty because the first key is missing
C25_Witness ==
    \E p \in SeqProcs :
        /\ Tabled(p)
        /\ inv[p].fields[1] = <<"O", ".", "P", ".", "Q">>
        /\ \E i, j \in 1..Len(inv[p].results.records) :
              /\ Columns(Lines(result[p].table)[2 + i])[1] = <<"5">>
              /\ Columns(Lines(result[p].table)[2 + j])[1] = <<>>
              /\ ~Reachable(inv[p].results.records[j], Split(inv[p].fields[1], "."))

\* the answered validation-rule query of a returned call
RulesAnswered(p) ==
    /\ inv[p].pc = "done" /\ Issued(p, "GET", "ValidationRule") /\ log[p][Len(log[p])].ok

\* what stands between the unescaped bars of a table line
RECURSIVE BarSplit(_, _)
BarSplit(s, cell) ==
    IF s = <<>> THEN <<cell>>
    ELSE IF Len(s) > 1 /\ s[1] = "\\" /\ s[2] = "|"
    THEN BarSplit(Tail(Tail(s)), cell \o <<"\\", "|">>)
    ELSE IF s[1] = "|" THEN <<cell>> \o BarSplit(Tail(s), <<>>)
    ELSE BarSplit(Tail(s), Append(cell, s[1]))

Cells(line) ==
    LET parts == BarSplit(line, <<>>) IN
    [k \in 1..(Len(parts) - 2) |-> SubSeq(parts[k + 1], 2, Len(parts[k + 1]) - 1)]

\* the record has no value for the key: the key is missing, or its value is None
Absent(rule, key) == key \notin DOMAIN rule \/ rule[key] = NoneV

EndsInDots(s) == Len(s) >= 3 /\ SubSeq(s, Len(s) - 2, Len(s)) = <<".", ".", ".">>

\* C26: in the table of get_validation_rules the error message, the error field
\* and the description of a rule are "N/A" when the record has no such key and
\* when its value is None; a description of more than 100 characters is shown as
\* 100 characters ending in "..."; a response without rules gives the message
\* "No validation rules found" and no table
C26_TextFieldsOrNA ==
    \A p \in SeqProcs :
        RulesAnswered(p)
        => IF inv[p].records = <<>>
           THEN result[p].text = "No validation rules found for ." /\ result[p].table = <<>>
           ELSE \A i \in 1..Len(inv[p].records) :
                  LET rule == inv[p].records[i]
                      cells == Cells(Lines(result[p].table)[2 + i])
                  IN  /\ Len(cells) = 5
                      /\ Absent(rule, "ErrorMessage") => cells[3] = NA
                      /\ Absent(rule, "ErrorDisplayField") => cells[4] = NA
                      /\ Absent(rule, "Description") => cells[5] = NA
                      /\ (~Absent(rule, "Description")
                          /\ Len(rule["Description"].v) > 100)
                         => Len(cells[5]) = 100 /\ EndsInDots(cells[5])

\* the call at position i of the log is a get_connection(cached=False) whose
\* exchange failed while a session was cached
FailedRefresh(lg, i) ==
    /\ i \in 1..Len(lg)
    /\ lg[i].o = "fresh" /\ ~lg[i].ok
    /\ LastGranted(lg, i) # 0

\* C27: a get_connection(cached=False) whose exchange fails raises and leaves
\* the cached session, access token, instance URL and connection info as they
\* were; a get_connection() that follows performs no exchange and returns the
\* session cached before the failed refresh
C27_FailedRefreshKeepsSession ==
    [][\A p \in SeqProcs :
         LET lg == log'[p]
             n == Len(lg)
         IN  n = Len(log[p]) + 1
             => /\ FailedRefresh(lg, n)
                   => /\ conn' = conn
                      /\ HasInstance(conn')
                      /\ conn'.instance = LastGranted(lg, n)
                      /\ escaped'[p] = {"get_connection"}
                /\ (FailedRefresh(lg, n - 1) /\ lg[n].o = "cached")
                   => /\ lg[n].ok /\ lg[n].n = 0
                      /\ lg[n].id = LastGranted(lg, n - 1)
                      /\ result'[p].id = conn.instance
                      /\ conn' = conn]_vars

\* a session was cached, a forced refresh failed, and the next get_connection()
\* returned the session cached before
C27_Witness ==
    \E p \in SeqProcs :
        /\ Len(log[p]) > 2
        /\ FailedRefresh(log[p], Len(log[p]) - 1)
        /\ log[p][Len(log[p])].o = "cached" /\ log[p][Len(log[p])].ok
        /\ log[p][Len(log[p])].id = LastGranted(log[p], Len(log[p]) - 1)
        /\ result[p].id = conn.instance /\ HasInstance(conn)

\* the invocation is a manage_debug_logs call of another operation than enable
\* and disable
OtherOperation(p) == inv[p].operation \in Operations \ {"enable", "disable"}

\* C28: a manage_debug_logs call whose operation is "retrieve", with or without
\* log_id and include_body, or no operation the tool knows, sends nothing but
\* GETs to the org (the exchange of get_connection apart), and the DebugLevel
\* and TraceFlag records are as they were when it started
C28_ReadOnlyOutsideEnableDisable ==
    \A p \in SeqProcs :
        OtherOperation(p)
        => /\ Mutations(p) = {}
           /\ \A i \in Entries(p) :
                \/ log[p][i].m \in {"GET", "GETCONN"}
                \/ log[p][i].o = "oauth2/token"
           /\ debugLevels = pre[p].levels
           /\ traceFlags = pre[p].flags

\* a retrieve that fetched a log's body, in an org that has trace flags
C28_Witness ==
    \E p \in SeqProcs :
        /\ Done(p) /\ inv[p].operation = "retrieve" /\ inv[p].include_body
        /\ Issued(p, "GET", "ApexLogBody")
        /\ DOMAIN traceFlags # {} /\ traceFlags = pre[p].flags

\* the trace flags of the user the invocations have created between them
CreatedFor(user_id) ==
    UNION { { <<p, i>> : i \in {j \in TraceFlagCreates(p) :
                                  log[p][j].ok /\ log[p][j].body.TracedEntityId = user_id} } :
            p \in Procs }

\* two enables for the same user are running or have returned, the first of
\* them called when the user had no trace flag
Racing ==
    /\ \A p \in Procs : inv[p].operation = "enable" /\ Started(p)
    /\ inv[1].username = inv[2].username
    /\ \E p \in Procs : FlagsOf(pre[p].flags, "U1") = {}

\* C29: two enables for the same user that run at the same time, the user
\* having no trace flag, create at most one trace flag between them
C29_ConcurrentEnablesCreateOneFlag ==
    Racing => Cardinality(CreatedFor("U1")) <= 1

\* the Debug Levels among these whose Apex code is logged at this level
LevelsAt(levels, log_level) == {id \in DOMAIN levels : levels[id].ApexCode = log_level}

\* C30: in a sequence of enable calls made one after the other, a Debug Level is
\* created only while the org has none for its level, one at a time; an enable
\* called when the org has a Debug Level for the level asked creates none and
\* sends its trace flag with one of those
C30_OneLevelPerLogLevel ==
    [][/\ Cardinality(DOMAIN debugLevels' \ DOMAIN debugLevels) <= 1
       /\ \A id \in DOMAIN debugLevels' \ DOMAIN debugLevels :
            LevelsAt(debugLevels, debugLevels'[id].ApexCode) = {}
       /\ \A id \in DOMAIN debugLevels : id \in DOMAIN debugLevels' /\ debugLevels'[id] = debugLevels[id]
       /\ \A p \in SeqProcs :
            (inv'[p].operation = "enable" /\ LevelsAt(pre'[p].levels, inv'[p].log_level) # {})
            => \A i \in 1..Len(log'[p]) :
                 /\ ~(log'[p][i].m = "POST" /\ log'[p][i].o = "DebugLevel")
                 /\ (log'[p][i].o = "TraceFlag" /\ log'[p][i].m \in {"POST", "PATCH"})
                    => log'[p][i].body.DebugLevelId
                         \in LevelsAt(pre'[p].levels, inv'[p].log_level)]_vars

\* the second of two enables for FINE, in an org that had no such Debug Level at
\* first, found the one the first had created and created a trace flag with it
C30_Witness ==
    \E p \in SeqProcs :
        /\ started = 2 /\ Succeeded(p) /\ inv[p].log_level = "FINE"
        /\ Cardinality(LevelsAt(pre[p].levels, "FINE")) = 1
        /\ Cardinality(LevelsAt(debugLevels, "FINE")) = 1
        /\ LevelCreates(p) = {}
        /\ \E i \in TraceFlagCreates(p) :
              log[p][i].ok /\ log[p][i].body.DebugLevelId \in LevelsAt(debugLevels, "FINE")

====
